---- MODULE Spec2Model ----
(***************************************************************************)
(* A model of the flex-int arithmetic engine of delta-radix: FlexInt is a  *)
(* sequence of bits, least-significant first, and every operation is       *)
(* translated loop by loop from flex-int/src/{lib,op,binary_op,            *)
(* from_string}.rs.  Rust indexes from 0 and TLA+ from 1, so bit(x, i) is  *)
(* x[i + 1].  A Rust panic is the outcome Panic, Option::None is None.     *)
(***************************************************************************)
EXTENDS Integers, Sequences, FiniteSets, TLC

\* ------------------------------------------------------------------------
\* Bounds of the model
\* ------------------------------------------------------------------------

\* the minimum supported number of bits (the application clamps to it)
MinBits == 3

\* the largest bit width explored
MaxBits == 4

\* the longest digit string explored
MaxStrLen == 2

VARIABLES
    self,       \* the receiver FlexInt (bits, least-significant first)
    other,      \* the argument FlexInt
    signed,     \* the `signed` argument of the operation
    str,        \* the digit string handed to a from_*_string function
    strSize,    \* the `size` argument of a from_*_string function
    op,         \* the operation that has been applied ("none" before any)
    result,     \* the outcome of that operation
    glyphs,     \* the glyph sequence handed to Parser::new
    variables,  \* the variable store handed to Parser::new
    eval_config, \* the Configuration handed to Parser::new and evaluate
    parsed,     \* what Parser::parse returned, and the parser after it
    app,        \* the CalculatorApplication (its fields but hal)
    hist        \* what the key presses so far have done (a history)

vars == <<self, other, signed, str, strSize, op, result,
          glyphs, variables, eval_config, parsed, app, hist>>

\* ------------------------------------------------------------------------
\* Outcomes: (FlexInt, bool), Option<...>, or a panic
\* ------------------------------------------------------------------------

Pair(b, o) == [bits |-> b, over |-> o, none |-> FALSE, panic |-> FALSE]

Some(b) == [bits |-> b, over |-> FALSE, none |-> FALSE, panic |-> FALSE]

None == [bits |-> <<>>, over |-> FALSE, none |-> TRUE, panic |-> FALSE]

Panic == [bits |-> <<>>, over |-> FALSE, none |-> FALSE, panic |-> TRUE]

NoResult == [bits |-> <<>>, over |-> FALSE, none |-> FALSE, panic |-> FALSE]

IsValue(r) == ~r.none /\ ~r.panic

\* ------------------------------------------------------------------------
\* Arithmetic helpers of the model (exact integers)
\* ------------------------------------------------------------------------

RECURSIVE Pow2(_)
Pow2(n) == IF n = 0 THEN 1 ELSE 2 * Pow2(n - 1)

\* the unsigned value of a bit vector
RECURSIVE UVal(_)
UVal(x) == IF Len(x) = 0 THEN 0
           ELSE (IF x[1] THEN 1 ELSE 0) + 2 * UVal(Tail(x))

\* the two's-complement value of a bit vector
SVal(x) == IF x[Len(x)] THEN UVal(x) - Pow2(Len(x)) ELSE UVal(x)

InSignedRange(v, w) == -Pow2(w - 1) <= v /\ v <= Pow2(w - 1) - 1

Abs(v) == IF v < 0 THEN -v ELSE v

\* quotient truncated toward zero
TruncDiv(x, y) == IF (x < 0) = (y < 0) THEN Abs(x) \div Abs(y)
                  ELSE -(Abs(x) \div Abs(y))

BitVectors(w) == [1..w -> BOOLEAN]

\* the element of a one-element set: {e(v) : v \in {d}} computes d once
TheOne(S) == CHOOSE v \in S : TRUE

\* ------------------------------------------------------------------------
\* FlexInt: construction and accessors (lib.rs)
\* ------------------------------------------------------------------------

size(x) == Len(x)

bit(x, i) == x[i + 1]

bit_set(x, i, v) == [k \in 1..Len(x) |-> IF k = i + 1 THEN v ELSE x[k]]

new(n) == [i \in 1..n |-> FALSE]

new_one(n) == bit_set(new(n), 0, TRUE)

from_int(value, n) == [i \in 1..n |-> (value \div Pow2(i - 1)) % 2 = 1]

is_zero(x) == \A i \in 1..Len(x) : ~x[i]

is_negative(x) == bit(x, size(x) - 1)

is_largest_possible_negative(x) ==
    IF bit(x, size(x) - 1)
    THEN \A i \in 0..(size(x) - 2) : ~bit(x, i)
    ELSE FALSE

equals(x, y) == x = y

RECURSIVE gt_loop(_, _, _)
gt_loop(x, y, i) ==
    IF i < 0 THEN FALSE
    ELSE IF bit(x, i) /\ ~bit(y, i) THEN TRUE
    ELSE IF ~bit(x, i) /\ bit(y, i) THEN FALSE
    ELSE gt_loop(x, y, i - 1)

is_greater_than_unsigned(x, y) == gt_loop(x, y, size(x) - 1)

\* ------------------------------------------------------------------------
\* FlexInt: width conversion, inversion, shifts (op.rs)
\* ------------------------------------------------------------------------

sign_extend(x, new_size) ==
    [i \in 1..new_size |-> IF i <= Len(x) THEN x[i] ELSE x[Len(x)]]

zero_extend(x, new_size) ==
    [i \in 1..new_size |-> IF i <= Len(x) THEN x[i] ELSE FALSE]

extend(x, new_size, sgn) ==
    IF sgn THEN sign_extend(x, new_size) ELSE zero_extend(x, new_size)

RECURSIVE shrink_loop(_, _, _, _)
shrink_loop(bits, new_size, zero_count, one_count) ==
    IF Len(bits) > new_size
    THEN IF bits[Len(bits)]
         THEN shrink_loop(SubSeq(bits, 1, Len(bits) - 1), new_size,
                          zero_count, one_count + 1)
         ELSE shrink_loop(SubSeq(bits, 1, Len(bits) - 1), new_size,
                          zero_count + 1, one_count)
    ELSE [bits |-> bits, zero_count |-> zero_count, one_count |-> one_count]

shrink(x, new_size) == shrink_loop(x, new_size, 0, 0)

invert(x) == [i \in 1..Len(x) |-> ~x[i]]

RECURSIVE pop_shift_loop(_, _, _)
pop_shift_loop(bits, popped, amount) ==
    IF amount = 0 THEN [bits |-> bits, popped |-> popped]
    ELSE LET inserted == <<FALSE>> \o bits
         IN pop_shift_loop(SubSeq(inserted, 1, Len(inserted) - 1),
                           Append(popped, inserted[Len(inserted)]),
                           amount - 1)

pop_shift_left(x, amount) == pop_shift_loop(x, <<>>, amount)

unchecked_shift_left(x, amount) == pop_shift_left(x, amount).bits

\* ------------------------------------------------------------------------
\* FlexInt::add (binary_op.rs)
\* ------------------------------------------------------------------------

validate_size(x, y) == size(x) = size(y)

RECURSIVE add_loop(_, _, _, _, _)
add_loop(a, b, i, res, carry) ==
    IF i >= size(a) THEN [bits |-> res, carry |-> carry]
    ELSE LET set_count == (IF bit(a, i) THEN 1 ELSE 0)
                        + (IF bit(b, i) THEN 1 ELSE 0)
                        + (IF carry THEN 1 ELSE 0)
         IN add_loop(a, b, i + 1,
                     bit_set(res, i, set_count \in {1, 3}),
                     set_count \in {2, 3})

\* a variant of add that applies the sign rule whatever `signed` is
add_sign_rule_only(a, b, sgn) ==
    IF ~validate_size(a, b) THEN Panic
    ELSE LET r == add_loop(a, b, 0, new(size(a)), FALSE)
             started_negative == is_negative(a)
             ended_negative == is_negative(r.bits)
         IN Pair(r.bits,
                 IF is_negative(b)
                 THEN started_negative /\ ~ended_negative
                 ELSE ~started_negative /\ ended_negative)

\* a variant of add whose signed rule ignores the sign of `other`
add_other_sign_ignored(a, b, sgn) ==
    IF ~validate_size(a, b) THEN Panic
    ELSE LET r == add_loop(a, b, 0, new(size(a)), FALSE)
             started_negative == is_negative(a)
             ended_negative == is_negative(r.bits)
         IN Pair(r.bits,
                 IF sgn THEN ~started_negative /\ ended_negative
                 ELSE r.carry)

add(a, b, sgn) ==
    IF ~validate_size(a, b) THEN Panic
    ELSE LET r == add_loop(a, b, 0, new(size(a)), FALSE)
             started_negative == is_negative(a)
             ended_negative == is_negative(r.bits)
         IN Pair(r.bits,
                 IF sgn
                 THEN IF is_negative(b)
                      THEN started_negative /\ ~ended_negative
                      ELSE ~started_negative /\ ended_negative
                 ELSE r.carry)

\* ------------------------------------------------------------------------
\* FlexInt::negate, FlexInt::abs (op.rs)
\* ------------------------------------------------------------------------

\* a variant of negate without the explicit case for zero
negate_zero_unhandled(x) ==
    IF is_largest_possible_negative(x) THEN None
    ELSE LET r == add(invert(x), new_one(size(x)), FALSE)
         IN IF r.over THEN Panic ELSE Some(r.bits)

negate(x) ==
    IF is_largest_possible_negative(x) THEN None
    ELSE IF is_zero(x) THEN Some(x)
    ELSE LET r == add(invert(x), new_one(size(x)), FALSE)
         IN IF r.over THEN Panic ELSE Some(r.bits)

abs(x) == IF is_negative(x) THEN negate(x) ELSE Some(x)

\* ------------------------------------------------------------------------
\* FlexInt::multiply (binary_op.rs)
\* ------------------------------------------------------------------------

RECURSIVE multiply_loop(_, _, _, _, _, _)
multiply_loop(a_ext, b_ext, i, result_ext, overflow, sgn) ==
    IF i >= size(b_ext) THEN [bits |-> result_ext, over |-> overflow]
    ELSE IF bit(b_ext, i)
    THEN LET r == add(result_ext, unchecked_shift_left(a_ext, i), FALSE)
         IN multiply_loop(a_ext, b_ext, i + 1, r.bits,
                          overflow \/ (r.over /\ ~sgn), sgn)
    ELSE multiply_loop(a_ext, b_ext, i + 1, result_ext, overflow, sgn)

\* a variant of multiply that trusts the carries of the additions alone
multiply_cut_ones_unchecked(a, b, sgn) ==
    IF ~validate_size(a, b) THEN Panic
    ELSE LET a_ext == extend(a, size(a) * 2, sgn)
             b_ext == extend(b, size(a) * 2, sgn)
             m == multiply_loop(a_ext, b_ext, 0, new(size(a) * 2), FALSE, sgn)
             cut == shrink(m.bits, size(a))
             res == cut.bits
         IN IF sgn
            THEN Pair(res,
                      \/ m.over
                      \/ (cut.zero_count > 0 /\ cut.one_count > 0)
                      \/ (cut.one_count > 0 /\ ~is_negative(res))
                      \/ (~is_zero(res)
                          /\ is_negative(res)
                             # (is_negative(a) # is_negative(b))))
            ELSE Pair(res, m.over)

\* a variant of multiply without the check of the result's sign
multiply_sign_unchecked(a, b, sgn) ==
    IF ~validate_size(a, b) THEN Panic
    ELSE LET a_ext == extend(a, size(a) * 2, sgn)
             b_ext == extend(b, size(a) * 2, sgn)
             m == multiply_loop(a_ext, b_ext, 0, new(size(a) * 2), FALSE, sgn)
             cut == shrink(m.bits, size(a))
             res == cut.bits
         IN IF sgn
            THEN Pair(res,
                      \/ m.over
                      \/ (cut.zero_count > 0 /\ cut.one_count > 0)
                      \/ (cut.one_count > 0 /\ ~is_negative(res)))
            ELSE Pair(res, m.over \/ cut.one_count > 0)

multiply(a, b, sgn) ==
    IF ~validate_size(a, b) THEN Panic
    ELSE LET a_ext == extend(a, size(a) * 2, sgn)
             b_ext == extend(b, size(a) * 2, sgn)
             m == multiply_loop(a_ext, b_ext, 0, new(size(a) * 2), FALSE, sgn)
             cut == shrink(m.bits, size(a))
             res == cut.bits
         IN IF sgn
            THEN Pair(res,
                      \/ m.over
                      \/ (cut.zero_count > 0 /\ cut.one_count > 0)
                      \/ (cut.one_count > 0 /\ ~is_negative(res))
                      \/ (~is_zero(res)
                          /\ is_negative(res)
                             # (is_negative(a) # is_negative(b))))
            ELSE Pair(res, m.over \/ cut.one_count > 0)

\* ------------------------------------------------------------------------
\* FlexInt::subtract_unsigned, subtract_signed, subtract (binary_op.rs)
\* ------------------------------------------------------------------------

half_sub(a, b) == [diff |-> a # b, borrow |-> ~a /\ b]

\* a variant of full_sub that loses the borrow of the second half-subtraction
full_sub_second_borrow_lost(a, b, borrow) ==
    LET h1 == half_sub(a, b)
        h2 == half_sub(h1.diff, borrow)
    IN [diff |-> h2.diff, borrow |-> h1.borrow]

full_sub(a, b, borrow) ==
    LET h1 == half_sub(a, b)
        h2 == half_sub(h1.diff, borrow)
    IN [diff |-> h2.diff, borrow |-> h1.borrow \/ h2.borrow]

RECURSIVE subtract_loop(_, _, _, _, _)
subtract_loop(a, b, i, res, borrow) ==
    IF i >= size(a) \/ i >= size(b) THEN Pair(res, borrow)
    ELSE LET f == full_sub(bit(a, i), bit(b, i), borrow)
         IN subtract_loop(a, b, i + 1, bit_set(res, i, f.diff), f.borrow)

subtract_unsigned(a, b) ==
    IF ~validate_size(a, b) THEN Panic
    ELSE LET h == half_sub(bit(a, 0), bit(b, 0))
         IN subtract_loop(a, b, 1, bit_set(new(size(a)), 0, h.diff), h.borrow)

\* a variant of subtract_signed whose fallback adds `other` to `self` twice
subtract_signed_fallback_adds(a, b) ==
    IF ~validate_size(a, b) THEN Panic
    ELSE LET negated == negate(b)
         IN IF negated.panic THEN Panic
            ELSE IF ~negated.none THEN add(a, negated.bits, TRUE)
            ELSE LET other_plus_one == add(a, b, TRUE)
                     r1 == add(a, other_plus_one.bits, TRUE)
                     r2 == add(r1.bits, from_int(1, size(a)), TRUE)
                 IN Pair(r2.bits, r1.over \/ r2.over)

subtract_signed(a, b) ==
    IF ~validate_size(a, b) THEN Panic
    ELSE LET negated == negate(b)
         IN IF negated.panic THEN Panic
            ELSE IF ~negated.none THEN add(a, negated.bits, TRUE)
            ELSE LET other_plus_one == add(b, new_one(size(a)), TRUE)
                     neg == negate(other_plus_one.bits)
                 IN IF ~IsValue(neg) THEN Panic
                    ELSE LET r1 == add(a, neg.bits, TRUE)
                             r2 == add(r1.bits, from_int(1, size(a)), TRUE)
                         IN Pair(r2.bits, r1.over \/ r2.over)

subtract(a, b, sgn) ==
    IF sgn THEN subtract_signed(a, b) ELSE subtract_unsigned(a, b)

\* ------------------------------------------------------------------------
\* FlexInt::divide (binary_op.rs)
\* ------------------------------------------------------------------------

RECURSIVE divide_loop(_, _, _, _, _)
divide_loop(a, b, i, quotient, remainder) ==
    IF i < 0 THEN [quotient |-> quotient, panic |-> FALSE]
    ELSE LET shifted == bit_set(unchecked_shift_left(remainder, 1), 0,
                                bit(a, i))
         IN IF is_greater_than_unsigned(shifted, b) \/ equals(shifted, b)
            THEN LET s == subtract_unsigned(shifted, b)
                 IN IF s.panic \/ s.over
                    THEN [quotient |-> quotient, panic |-> TRUE]
                    ELSE divide_loop(a, b, i - 1,
                                     bit_set(quotient, i, TRUE), s.bits)
            ELSE divide_loop(a, b, i - 1, quotient, shifted)

\* what divide does once the special case of a divisor of one is passed
divide_general(x, y, sgn) ==
    LET a == IF sgn THEN abs(sign_extend(x, size(x) + 1)) ELSE Some(x)
        b == IF sgn THEN abs(sign_extend(y, size(x) + 1)) ELSE Some(y)
        negate_result == sgn /\ (is_negative(x) # is_negative(y))
    IN IF ~IsValue(a) \/ ~IsValue(b) THEN Panic
       ELSE IF is_zero(y) THEN Pair(new(size(x)), TRUE)
       ELSE LET d == divide_loop(a.bits, b.bits, size(a.bits) - 1,
                                 new(size(a.bits)), new(size(a.bits)))
            IN IF d.panic THEN Panic
               ELSE IF sgn
               THEN LET sign == is_negative(d.quotient)
                        quotient == shrink(d.quotient,
                                           size(d.quotient) - 1).bits
                        overflow == sign # is_negative(quotient)
                    IN IF negate_result
                       THEN LET r == negate(quotient)
                            IN IF r.panic THEN Panic
                               ELSE IF ~r.none THEN Pair(r.bits, overflow)
                               ELSE Pair(quotient, TRUE)
                       ELSE Pair(quotient, overflow)
               ELSE Pair(d.quotient, FALSE)

\* a variant of divide in which a zero divisor is a fault
divide_zero_faults(x, y, sgn) ==
    IF ~validate_size(x, y) THEN Panic
    ELSE IF is_zero(y) THEN Panic
    ELSE divide_general(x, y, sgn)

\* a variant of divide without the special case of a divisor of one
divide_one_not_special(x, y, sgn) ==
    IF ~validate_size(x, y) THEN Panic
    ELSE divide_general(x, y, sgn)

divide(x, y, sgn) ==
    IF ~validate_size(x, y) THEN Panic
    ELSE LET abs_other == abs(y)
             other_is_one ==
                 IF sgn
                 THEN IsValue(abs_other) /\ abs_other.bits = new_one(size(x))
                 ELSE y = new_one(size(x))
         IN IF sgn /\ abs_other.panic THEN Panic
            ELSE IF other_is_one
            THEN IF is_negative(y)
                 THEN LET neg == negate(x)
                      IN IF neg.panic THEN Panic
                         ELSE IF ~neg.none THEN Pair(neg.bits, FALSE)
                         ELSE Pair(new(size(x)), TRUE)
                 ELSE Pair(x, FALSE)
            ELSE divide_general(x, y, sgn)

\* ------------------------------------------------------------------------
\* FlexInt::from_unsigned_decimal_string (from_string.rs)
\* A character is modelled by its value as a hexadecimal digit, 0..15:
\* 0..9 are the decimal digits '0'..'9', 10..15 the letters 'A'..'F'.
\* ------------------------------------------------------------------------

NoDigit == -1

to_digit(c, radix) == IF 0 <= c /\ c < radix THEN c ELSE NoDigit

RECURSIVE from_unsigned_decimal_loop(_, _, _, _, _)
from_unsigned_decimal_loop(s, i, n, res, overflow) ==
    IF i > Len(s) THEN Pair(res, overflow)
    ELSE IF to_digit(s[i], 10) = NoDigit THEN None
    ELSE TheOne({
        TheOne({from_unsigned_decimal_loop(s, i + 1, n, r.bits,
                                           overflow \/ m.over \/ r.over) :
                   r \in {add(m.bits, from_int(to_digit(s[i], 10), n),
                              FALSE)}}) :
           m \in {multiply(res, from_int(10, n), FALSE)}})

from_unsigned_decimal_string(s, n) ==
    from_unsigned_decimal_loop(s, 1, n, new(n), FALSE)

\* the number a string of decimal digits denotes
RECURSIVE DecVal(_)
DecVal(s) == IF Len(s) = 0 THEN 0
             ELSE 10 * DecVal(SubSeq(s, 1, Len(s) - 1)) + s[Len(s)]

DecimalStrings == UNION {[1..l -> 0..9] : l \in 1..MaxStrLen}

\* the characters '+' and '-', which are no digits in any base
PlusChar == 16

MinusChar == 17

\* strings of up to MaxStrLen hexadecimal digits, '0'..'9' and 'A'..'F'
HexStrings == UNION {[1..l -> 0..15] : l \in 1..MaxStrLen}

\* the digit strings with an optional sign in front
SignedStrings ==
    HexStrings
    \cup {<<PlusChar>> \o s : s \in HexStrings}
    \cup {<<MinusChar>> \o s : s \in HexStrings}

\* the number a string of hexadecimal digits denotes
RECURSIVE HexVal(_)
HexVal(s) == IF Len(s) = 0 THEN 0
             ELSE 16 * HexVal(SubSeq(s, 1, Len(s) - 1)) + s[Len(s)]

IsDigitString(s, radix) ==
    Len(s) >= 1 /\ \A i \in 1..Len(s) : 0 <= s[i] /\ s[i] < radix

HasSign(s) == Len(s) >= 1 /\ s[1] \in {PlusChar, MinusChar}

Unsigned(s) == IF HasSign(s) THEN Tail(s) ELSE s

\* the number a string of digits denotes in a base
RECURSIVE DigitsVal(_, _)
DigitsVal(s, rdx) ==
    IF Len(s) = 0 THEN 0
    ELSE rdx * DigitsVal(SubSeq(s, 1, Len(s) - 1), rdx) + s[Len(s)]

\* an optional sign followed by at least one digit of the radix
IsSignedDigitString(s, radix) == IsDigitString(Unsigned(s), radix)

\* the signed number such a string denotes
SignedVal(s, radix) ==
    LET m == IF radix = 16 THEN HexVal(Unsigned(s)) ELSE DecVal(Unsigned(s))
    IN IF Len(s) >= 1 /\ s[1] = MinusChar THEN -m ELSE m


\* ------------------------------------------------------------------------
\* FlexInt::from_unsigned_hex_string (from_string.rs)
\* ------------------------------------------------------------------------

\* Vec::splice(0..4, bits): the range must lie within the vector
splice_low4(bits, nibble) ==
    IF Len(bits) < 4 THEN [bits |-> bits, panic |-> TRUE]
    ELSE [bits |-> nibble \o SubSeq(bits, 5, Len(bits)), panic |-> FALSE]

RECURSIVE from_unsigned_hex_loop(_, _, _, _)
from_unsigned_hex_loop(s, i, res, overflow) ==
    IF i > Len(s) THEN Pair(res, overflow)
    ELSE IF to_digit(s[i], 16) = NoDigit THEN None
    ELSE TheOne({
        TheOne({IF spliced.panic THEN Panic
                ELSE from_unsigned_hex_loop(
                        s, i + 1, spliced.bits,
                        overflow \/ (\E k \in 1..Len(shifted.popped) :
                                        shifted.popped[k])) :
                   spliced \in {splice_low4(shifted.bits,
                                            from_int(to_digit(s[i], 16), 4))}}) :
           shifted \in {pop_shift_left(res, 4)}})

from_unsigned_hex_string(s, n) == from_unsigned_hex_loop(s, 1, new(n), FALSE)

\* ------------------------------------------------------------------------
\* FlexInt::from_unsigned_binary_string, from_signed_binary_string: named by
\* parse.rs, defined outside the sources at hand; modelled on the
\* specification's account of string parsing (multiply the running value
\* by the base and add the digit, OR-ing the overflow flags)
\* ------------------------------------------------------------------------

RECURSIVE from_unsigned_binary_loop(_, _, _, _, _)
from_unsigned_binary_loop(s, i, n, res, overflow) ==
    IF i > Len(s) THEN Pair(res, overflow)
    ELSE IF to_digit(s[i], 2) = NoDigit THEN None
    ELSE TheOne({
        TheOne({from_unsigned_binary_loop(s, i + 1, n, r.bits,
                                          overflow \/ m.over \/ r.over) :
                   r \in {add(m.bits, from_int(to_digit(s[i], 2), n),
                              FALSE)}}) :
           m \in {multiply(res, from_int(2, n), FALSE)}})

from_unsigned_binary_string(s, n) ==
    from_unsigned_binary_loop(s, 1, n, new(n), FALSE)

\* ------------------------------------------------------------------------
\* FlexInt::from_signed_string and its two uses (from_string.rs)
\* ------------------------------------------------------------------------

\* the call of the FnOnce handed to from_signed_string
call_unsigned_string_fn(unsigned_string_fn, s, n) ==
    CASE unsigned_string_fn = "from_unsigned_decimal_string" ->
            from_unsigned_decimal_string(s, n)
      [] unsigned_string_fn = "from_unsigned_hex_string" ->
            from_unsigned_hex_string(s, n)
      [] unsigned_string_fn = "from_unsigned_binary_string" ->
            from_unsigned_binary_string(s, n)

\* from_signed_string once the sign is stripped and the digits are parsed
from_signed_string_signed(u, is_neg) ==
    IF u.panic THEN Panic
    ELSE IF u.none THEN None
    ELSE LET num == u.bits
             over == \/ u.over
                     \/ (is_negative(num)
                         /\ ~(is_largest_possible_negative(num) /\ is_neg))
         IN IF is_neg
            THEN TheOne({IF negated.panic THEN Panic
                         ELSE IF ~negated.none THEN Pair(negated.bits, over)
                         ELSE Pair(num, ~is_largest_possible_negative(num)) :
                            negated \in {negate(num)}})
            ELSE Pair(num, over)

from_signed_string(s, n, unsigned_string_fn) ==
    LET is_neg == Len(s) >= 1 /\ s[1] = MinusChar
        rest == IF Len(s) >= 1 /\ s[1] \in {PlusChar, MinusChar}
                THEN Tail(s) ELSE s
    IN TheOne({from_signed_string_signed(u, is_neg) :
                  u \in {call_unsigned_string_fn(unsigned_string_fn, rest, n)}})

from_signed_decimal_string(s, n) ==
    from_signed_string(s, n, "from_unsigned_decimal_string")

from_signed_hex_string(s, n) ==
    from_signed_string(s, n, "from_unsigned_hex_string")

from_signed_binary_string(s, n) ==
    from_signed_string(s, n, "from_unsigned_binary_string")

\* ------------------------------------------------------------------------
\* FlexInt::to_unsigned_decimal_string, to_signed_decimal_string
\* (to_string.rs).  `digits` holds decimal digits, least-significant first.
\* ------------------------------------------------------------------------

\* dst[i] = value, for digits counted from 0
digit_set(dst, i, value) ==
    [k \in 1..Len(dst) |-> IF k = i + 1 THEN value ELSE dst[k]]

\* the first loop of the local fn add: dst[i] += src[i], with carry
RECURSIVE digits_add_loop(_, _, _, _)
digits_add_loop(dst, src, i, carry) ==
    IF i >= Len(src) THEN [dst |-> dst, carry |-> carry, panic |-> FALSE]
    ELSE IF i >= Len(dst) THEN [dst |-> dst, carry |-> carry, panic |-> TRUE]
    ELSE TheOne({digits_add_loop(digit_set(dst, i, dividend % 10), src,
                                 i + 1, dividend \div 10) :
                    dividend \in {src[i + 1] + dst[i + 1] + carry}})

\* the second loop of the local fn add: `oi += 1` comes before the access
RECURSIVE digits_carry_loop(_, _, _)
digits_carry_loop(dst, oi, carry) ==
    IF carry = 0 THEN [dst |-> dst, panic |-> FALSE]
    ELSE IF oi + 1 >= Len(dst) THEN [dst |-> dst, panic |-> TRUE]
    ELSE TheOne({digits_carry_loop(digit_set(dst, oi + 1, dividend % 10),
                                   oi + 1, dividend \div 10) :
                    dividend \in {dst[oi + 2] + carry}})

digits_add(dst, src) ==
    TheOne({IF first.panic THEN [dst |-> dst, panic |-> TRUE]
            ELSE digits_carry_loop(first.dst, Len(src), first.carry) :
               first \in {digits_add_loop(dst, src, 0, 0)}})

\* one round of the loop over the bits: double the digits, add the bit
to_decimal_digits_step(digits, b) ==
    TheOne({IF doubled.panic \/ ~b THEN doubled
            ELSE digits_add(doubled.dst, <<1>>) :
               doubled \in {digits_add(digits, digits)}})

\* for bit in self.bits().iter().rev()
RECURSIVE to_decimal_digits(_, _, _)
to_decimal_digits(x, i, digits) ==
    IF i < 0 THEN [dst |-> digits, panic |-> FALSE]
    ELSE TheOne({IF next.panic THEN next
                 ELSE to_decimal_digits(x, i - 1, next.dst) :
                    next \in {to_decimal_digits_step(digits, bit(x, i))}})

\* for digit in digits.iter().rev(): push once a non-zero digit was seen
RECURSIVE push_digits(_, _, _, _)
push_digits(digits, i, encountered_nonzero_digit, res) ==
    IF i < 1 THEN res
    ELSE LET seen == encountered_nonzero_digit \/ digits[i] # 0
         IN push_digits(digits, i - 1, seen,
                        IF seen THEN Append(res, digits[i]) ELSE res)

\* a variant of to_unsigned_decimal_string that pushes every digit
to_unsigned_decimal_string_unstripped(x) ==
    LET d == to_decimal_digits(x, size(x) - 1, [i \in 1..size(x) |-> 0])
    IN IF d.panic THEN [str |-> <<>>, panic |-> TRUE]
       ELSE LET res == push_digits(d.dst, Len(d.dst), TRUE, <<>>)
            IN [str |-> IF res = <<>> THEN <<0>> ELSE res, panic |-> FALSE]

to_unsigned_decimal_string(x) ==
    LET d == to_decimal_digits(x, size(x) - 1, [i \in 1..size(x) |-> 0])
    IN IF d.panic THEN [str |-> <<>>, panic |-> TRUE]
       ELSE LET res == push_digits(d.dst, Len(d.dst), FALSE, <<>>)
            IN [str |-> IF res = <<>> THEN <<0>> ELSE res, panic |-> FALSE]

\* to_unsigned_hex_string: .rev().skip_while(|x| !*x), the bits without the
\* zeroes at the most-significant end
RECURSIVE skip_leading_zeroes(_)
skip_leading_zeroes(bits) ==
    IF Len(bits) > 0 /\ ~bits[Len(bits)]
    THEN skip_leading_zeroes(SubSeq(bits, 1, Len(bits) - 1))
    ELSE bits

\* the digit of the k-th chunk of four bits, padded with false
hex_chunk_digit(bits, k) ==
    LET b(j) == IF 4 * k + j <= Len(bits) /\ bits[4 * k + j] THEN 1 ELSE 0
    IN b(1) + 2 * b(2) + 4 * b(3) + 8 * b(4)

to_unsigned_hex_string(x) ==
    IF is_zero(x) THEN [str |-> <<0>>, panic |-> FALSE]
    ELSE TheOne({
           LET chunks == (Len(bits) + 3) \div 4
           IN [str |-> [j \in 1..chunks |-> hex_chunk_digit(bits, chunks - j)],
               panic |-> FALSE] :
              bits \in {skip_leading_zeroes(x)}})

\* to_unsigned_binary_string: the bits from the most significant one that
\* is set, "0" for zero
to_unsigned_binary_string(x) ==
    IF is_zero(x) THEN [str |-> <<0>>, panic |-> FALSE]
    ELSE TheOne({
           [str |-> [j \in 1..Len(bits) |->
                        IF bits[Len(bits) - j + 1] THEN 1 ELSE 0],
            panic |-> FALSE] :
              bits \in {skip_leading_zeroes(x)}})

\* the call of the FnOnce handed to to_signed_string
call_unsigned_to_string_fn(unsigned_string_fn, x) ==
    CASE unsigned_string_fn = "to_unsigned_decimal_string" ->
            to_unsigned_decimal_string(x)
      [] unsigned_string_fn = "to_unsigned_hex_string" ->
            to_unsigned_hex_string(x)
      [] unsigned_string_fn = "to_unsigned_binary_string" ->
            to_unsigned_binary_string(x)

\* to_signed_string once the absolute value is taken: unwrap, format, sign
to_signed_string_of_abs(x, a, unsigned_string_fn) ==
    IF ~IsValue(a) THEN [str |-> <<>>, panic |-> TRUE]
    ELSE TheOne({IF u.panic THEN u
                 ELSE [str |-> IF is_negative(x) THEN <<MinusChar>> \o u.str
                               ELSE u.str,
                       panic |-> FALSE] :
                    u \in {call_unsigned_to_string_fn(unsigned_string_fn,
                                                      a.bits)}})

\* a variant of to_signed_string that takes abs at the value's own width
to_signed_string_not_extended(x, unsigned_string_fn) ==
    TheOne({to_signed_string_of_abs(x, a, unsigned_string_fn) :
               a \in {abs(x)}})

to_signed_string(x, unsigned_string_fn) ==
    TheOne({to_signed_string_of_abs(x, a, unsigned_string_fn) :
               a \in {abs(sign_extend(x, size(x) + 1))}})

to_signed_decimal_string(x) ==
    to_signed_string(x, "to_unsigned_decimal_string")

to_signed_hex_string(x) ==
    to_signed_string(x, "to_unsigned_hex_string")

to_signed_binary_string(x) ==
    to_signed_string(x, "to_unsigned_binary_string")

\* the decimal numeral of a natural number, without leading zeros
RECURSIVE DecNumeral(_)
DecNumeral(v) == IF v < 10 THEN <<v>>
                 ELSE Append(DecNumeral(v \div 10), v % 10)

\* ------------------------------------------------------------------------
\* Glyph (display.rs), Base (frontend/mod.rs), Configuration (eval.rs)
\* ------------------------------------------------------------------------

GlyphDigit(d) == [g |-> "Digit", d |-> d]

GlyphAdd == [g |-> "Add", d |-> 0]

GlyphSubtract == [g |-> "Subtract", d |-> 0]

GlyphMultiply == [g |-> "Multiply", d |-> 0]

GlyphDivide == [g |-> "Divide", d |-> 0]

GlyphLeftParen == [g |-> "LeftParen", d |-> 0]

GlyphRightParen == [g |-> "RightParen", d |-> 0]

GlyphHexBase == [g |-> "HexBase", d |-> 0]

GlyphBinaryBase == [g |-> "BinaryBase", d |-> 0]

GlyphDecimalBase == [g |-> "DecimalBase", d |-> 0]

GlyphVariable == [g |-> "Variable", d |-> 0]

GlyphAlign == [g |-> "Align", d |-> 0]

\* Option<Glyph>::None
NoGlyph == [g |-> "None", d |-> 0]

\* Option<Base>::None
NoBase == "None"

\* Base::from_glyph
from_glyph(glyph) ==
    CASE glyph.g = "HexBase" -> "Hexadecimal"
      [] glyph.g = "BinaryBase" -> "Binary"
      [] glyph.g = "DecimalBase" -> "Decimal"
      [] OTHER -> NoBase

\* Base::radix
radix(base) ==
    CASE base = "Decimal" -> 10
      [] base = "Hexadecimal" -> 16
      [] base = "Binary" -> 2

\* char::from_digit(d, 16): the character of a digit glyph, or none
from_digit(d, rdx) == IF 0 <= d /\ d < rdx THEN d ELSE NoDigit

\* Configuration { data_type: DataType { bits, signed } }
Configuration(bits, sgn) == [bits |-> bits, signed |-> sgn]

\* ------------------------------------------------------------------------
\* NumberParser for FlexInt (parse.rs)
\* ------------------------------------------------------------------------

NumberParser_parse(chars, base, sgn, bits) ==
    CASE base = "Decimal" ->
            IF sgn THEN from_signed_decimal_string(chars, bits)
            ELSE from_unsigned_decimal_string(chars, bits)
      [] base = "Hexadecimal" ->
            IF sgn THEN from_signed_hex_string(chars, bits)
            ELSE from_unsigned_hex_string(chars, bits)
      [] base = "Binary" ->
            IF sgn THEN from_signed_binary_string(chars, bits)
            ELSE from_unsigned_binary_string(chars, bits)

\* ------------------------------------------------------------------------
\* NumberParser for ConstantOverflowChecker (parse.rs)
\* ------------------------------------------------------------------------

\* i128::from_str_radix(chars, radix): an optional sign and at least one
\* digit of the radix; None stands for Err
from_str_radix(chars, rdx) ==
    IF IsSignedDigitString(chars, rdx)
    THEN [ok |-> TRUE,
          num |-> IF chars[1] = MinusChar
                  THEN -DigitsVal(Unsigned(chars), rdx)
                  ELSE DigitsVal(Unsigned(chars), rdx)]
    ELSE [ok |-> FALSE, num |-> 0]

ConstantOverflowChecker_parse(chars, base, sgn, bits) ==
    LET parsed_num == from_str_radix(chars, radix(base))
        num == parsed_num.num
    IN IF ~parsed_num.ok THEN Pair(new(1), TRUE)
       ELSE Pair(new(1),
                 IF sgn THEN num >= Pow2(bits - 1) \/ num < -1 * Pow2(bits - 1)
                 ELSE num >= Pow2(bits))

\* ------------------------------------------------------------------------
\* GlyphSpan, Node, ParserError (parse.rs)
\* ------------------------------------------------------------------------

GlyphSpan(start, length) == [start |-> start, length |-> length]

min(a, b) == IF a <= b THEN a ELSE b

max(a, b) == IF a >= b THEN a ELSE b

\* GlyphSpan::end: start + length - 1 in usize; below zero it has underflowed
end(span) == span.start + span.length - 1

\* GlyphSpan::merge.  end() underflows only for the span {0, 0}; arithmetic
\* that wraps then gives new_end = usize::MAX, new_start = 0 and
\* new_length = usize::MAX - 0 + 1 = 0.  `underflow` tells that it happened.
merge(a, b) ==
    IF end(a) < 0 \/ end(b) < 0
    THEN [span |-> GlyphSpan(0, 0), underflow |-> TRUE]
    ELSE [span |-> GlyphSpan(min(a.start, b.start),
                             max(end(a), end(b)) - min(a.start, b.start) + 1),
          underflow |-> FALSE]

NoNode == [kind |-> "None"]

NumberNode(span, num) == [kind |-> "Number", span |-> span, num |-> num]

BinaryNode(kind, span, l, r) == [kind |-> kind, span |-> span, l |-> l, r |-> r]

NoError == [ptr |-> 0, kind |-> "None", glyph |-> NoGlyph]

\* ------------------------------------------------------------------------
\* Parser (parse.rs).  A parser is the record p of its mutable fields; the
\* borrowed glyphs, variables and eval_config are the record c.  Two fields
\* are kept for the record only: `wrapped` (an end() has underflowed) and
\* `literals` (what was decided for each numeric literal).  c.active holds
\* the variable slots whose contents are being parsed.
\* ------------------------------------------------------------------------

\* Parser::new
Parser_new ==
    [ptr |-> 0, constant_overflow_spans |-> <<>>,
     next_number_unary_negations |-> 0, wrapped |-> FALSE, literals |-> <<>>]

ParserContext(gs, vs, cfg, active) ==
    [glyphs |-> gs, variables |-> vs, eval_config |-> cfg, active |-> active]

Ok(node, p) == [res |-> "Ok", node |-> node, err |-> NoError, p |-> p]

\* a variant of create_error that gives the place of the glyph before ptr
create_error_at_last_glyph(p, kind, glyph) ==
    [res |-> "Err", node |-> NoNode,
     err |-> [ptr |-> p.ptr - 1, kind |-> kind, glyph |-> glyph], p |-> p]

\* Err(self.create_error(kind))
create_error(p, kind, glyph) ==
    [res |-> "Err", node |-> NoNode,
     err |-> [ptr |-> p.ptr, kind |-> kind, glyph |-> glyph], p |-> p]

\* a panic, and the recursion that never returns
Fault(kind, p) == [res |-> kind, node |-> NoNode, err |-> NoError, p |-> p]

here(c, p) == IF p.ptr < Len(c.glyphs) THEN c.glyphs[p.ptr + 1] ELSE NoGlyph

advance(p) == [p EXCEPT !.ptr = @ + 1]

\* while let Some(Glyph::Digit(d)) = self.here(): the ptr after the digits
RECURSIVE gather_digits(_, _)
gather_digits(gs, ptr) ==
    IF ptr < Len(gs) /\ gs[ptr + 1].g = "Digit" THEN gather_digits(gs, ptr + 1)
    ELSE ptr

RECURSIVE parse(_)
RECURSIVE parse_top_level(_, _)
RECURSIVE parse_add_sub(_, _)
RECURSIVE add_sub_loop(_, _, _)
RECURSIVE parse_mul_div(_, _)
RECURSIVE mul_div_loop(_, _, _)
RECURSIVE parse_bottom(_, _)

\* parse_bottom, the number: p is the parser at its first glyph, p1 after
\* the base at the start, p2 after the digits, p3 after the base at the end
parse_number_str(c, p, base, digits, p3) ==
    LET negs == p.next_number_unary_negations
        negated == negs % 2 = 1
        start == IF negated THEN p.ptr - negs ELSE p.ptr
        chars == IF negated THEN <<MinusChar>> \o digits ELSE digits
        force_parse_signed == negated /\ ~c.eval_config.signed
        parse_signed == c.eval_config.signed \/ force_parse_signed
        p4 == [p3 EXCEPT !.next_number_unary_negations =
                            IF negated THEN 0 ELSE @]
    IN TheOne({
         IF n.panic THEN Fault("Panic", p4)
         ELSE IF n.none THEN create_error(p4, "InvalidNumber", NoGlyph)
         ELSE LET overflow == n.over \/ force_parse_signed
                  span == GlyphSpan(start, p4.ptr - start)
                  lit == [first |-> p.ptr, span |-> span, negated |-> negated,
                          parse_signed |-> parse_signed, digits |-> digits,
                          base |-> base, overflow |-> overflow,
                          num |-> n.bits]
              IN Ok(NumberNode(span, n.bits),
                    [p4 EXCEPT !.constant_overflow_spans =
                                  IF overflow THEN Append(@, span) ELSE @,
                               !.literals = Append(@, lit)]) :
            n \in {NumberParser_parse(
                      chars, IF base = NoBase THEN "Decimal" ELSE base,
                      parse_signed, c.eval_config.bits)}})

\* a variant of parse_number that consumes a base at the end but keeps the
\* base found at the start
parse_number_end_base_unused(c, p) ==
    LET base1 == from_glyph(here(c, p))
        p1 == IF base1 # NoBase THEN advance(p) ELSE p
        ptr2 == gather_digits(c.glyphs, p1.ptr)
        digits == [i \in 1..(ptr2 - p1.ptr) |->
                      from_digit(c.glyphs[p1.ptr + i].d, 16)]
        p2 == [p1 EXCEPT !.ptr = ptr2]
        base2 == from_glyph(here(c, p2))
    IN IF \E i \in 1..Len(digits) : digits[i] = NoDigit
       THEN Fault("Panic", p1)
       ELSE IF base2 # NoBase /\ base1 # NoBase
       THEN create_error(p2, "DuplicateBase", NoGlyph)
       ELSE parse_number_str(c, p, base1, digits,
                             IF base2 # NoBase THEN advance(p2) ELSE p2)

parse_number(c, p) ==
    LET base1 == from_glyph(here(c, p))
        p1 == IF base1 # NoBase THEN advance(p) ELSE p
        ptr2 == gather_digits(c.glyphs, p1.ptr)
        digits == [i \in 1..(ptr2 - p1.ptr) |->
                      from_digit(c.glyphs[p1.ptr + i].d, 16)]
        p2 == [p1 EXCEPT !.ptr = ptr2]
        base2 == from_glyph(here(c, p2))
    IN IF \E i \in 1..Len(digits) : digits[i] = NoDigit
       THEN Fault("Panic", p1)
       ELSE IF base2 # NoBase /\ base1 # NoBase
       THEN create_error(p2, "DuplicateBase", NoGlyph)
       ELSE parse_number_str(c, p,
                             IF base2 # NoBase THEN base2 ELSE base1,
                             digits,
                             IF base2 # NoBase THEN advance(p2) ELSE p2)

\* a variant of parse_variable that takes over the spans of the nested parse
parse_variable_spans_copied(c, p) ==
    LET h == here(c, p)
        p2 == advance(p)
    IN IF h.g # "Digit" THEN create_error(p, "InvalidVariable", NoGlyph)
       ELSE IF h.d >= 16 THEN create_error(p, "InvalidVariable", NoGlyph)
       ELSE IF h.d \in c.active THEN Fault("Recursion", p2)
       ELSE TheOne({
              LET p3 == [p2 EXCEPT !.wrapped = @ \/ v.p.wrapped]
              IN IF v.res # "Ok" THEN [v EXCEPT !.p = p3]
                 ELSE Ok(v.node,
                         [p3 EXCEPT !.constant_overflow_spans =
                                       @ \o v.p.constant_overflow_spans]) :
                 v \in {parse(ParserContext(c.variables[h.d], c.variables,
                                            c.eval_config,
                                            c.active \cup {h.d}))}})

\* parse_bottom, the variable: p is the parser after the Variable glyph
parse_variable(c, p) ==
    LET h == here(c, p)
        p2 == advance(p)
    IN IF h.g # "Digit" THEN create_error(p, "InvalidVariable", NoGlyph)
       ELSE IF h.d >= 16 THEN create_error(p, "InvalidVariable", NoGlyph)
       ELSE IF h.d \in c.active THEN Fault("Recursion", p2)
       ELSE TheOne({
              LET p3 == [p2 EXCEPT !.wrapped = @ \/ v.p.wrapped]
              IN IF v.res # "Ok" THEN [v EXCEPT !.p = p3]
                 ELSE Ok(v.node,
                         IF v.p.constant_overflow_spans # <<>>
                         THEN [p3 EXCEPT !.constant_overflow_spans =
                                  Append(@, GlyphSpan(p3.ptr - 2, 2))]
                         ELSE p3) :
                 v \in {parse(ParserContext(c.variables[h.d], c.variables,
                                            c.eval_config,
                                            c.active \cup {h.d}))}})

parse_bottom(c, p) ==
    LET h == here(c, p)
    IN CASE h.g = "Subtract" ->
               parse_bottom(c, [p EXCEPT !.next_number_unary_negations = @ + 1,
                                         !.ptr = @ + 1])
         [] h.g = "LeftParen" ->
               TheOne({IF r.res # "Ok" THEN r
                       ELSE IF here(c, r.p).g # "RightParen"
                       THEN create_error(r.p, "ExpectedParen", NoGlyph)
                       ELSE Ok(r.node, advance(r.p)) :
                          r \in {parse_top_level(c, advance(p))}})
         [] h.g = "Variable" -> parse_variable(c, advance(p))
         [] h.g \in {"Digit", "HexBase", "BinaryBase", "DecimalBase"} ->
               parse_number(c, p)
         [] h.g = "None" -> create_error(p, "UnexpectedEnd", NoGlyph)
         [] OTHER -> create_error(p, "UnexpectedGlyph", h)

\* the binary node of a loop round, and the parser after it
binary_round(rhs, current, kind) ==
    TheOne({[node |-> BinaryNode(kind, m.span, current, rhs.node),
             p |-> [rhs.p EXCEPT !.wrapped = @ \/ m.underflow]] :
               m \in {merge(current.span, rhs.node.span)}})

mul_div_loop(c, current, p) ==
    IF here(c, p).g \in {"Multiply", "Divide"}
    THEN TheOne({IF rhs.res # "Ok" THEN rhs
                 ELSE TheOne({mul_div_loop(c, b.node, b.p) :
                                 b \in {binary_round(rhs, current,
                                                     here(c, p).g)}}) :
                    rhs \in {parse_bottom(c, advance(p))}})
    ELSE Ok(current, p)

parse_mul_div(c, p) ==
    TheOne({IF current.res # "Ok" THEN current
            ELSE mul_div_loop(c, current.node, current.p) :
               current \in {parse_bottom(c, p)}})

add_sub_loop(c, current, p) ==
    IF here(c, p).g \in {"Add", "Subtract"}
    THEN TheOne({IF rhs.res # "Ok" THEN rhs
                 ELSE TheOne({add_sub_loop(c, b.node, b.p) :
                                 b \in {binary_round(rhs, current,
                                                     here(c, p).g)}}) :
                    rhs \in {parse_mul_div(c, advance(p))}})
    ELSE Ok(current, p)

parse_add_sub(c, p) ==
    TheOne({IF current.res # "Ok" THEN current
            ELSE add_sub_loop(c, current.node, current.p) :
               current \in {parse_mul_div(c, p)}})

parse_top_level(c, p) == parse_add_sub(c, p)

\* a variant of parse that does not look for glyphs left over
parse_leftover_ignored(c) ==
    IF Len(c.glyphs) = 0
    THEN Ok(NumberNode(GlyphSpan(0, 0), new(c.eval_config.bits)), Parser_new)
    ELSE parse_top_level(c, Parser_new)

parse(c) ==
    IF Len(c.glyphs) = 0
    THEN Ok(NumberNode(GlyphSpan(0, 0), new(c.eval_config.bits)), Parser_new)
    ELSE TheOne({IF result_.res # "Ok" THEN result_
                 ELSE IF here(c, result_.p) # NoGlyph
                 THEN create_error(result_.p, "UnexpectedGlyph",
                                   here(c, result_.p))
                 ELSE result_ :
                    result_ \in {parse_top_level(c, Parser_new)}})

\* ------------------------------------------------------------------------
\* evaluate (eval.rs): [result, overflow]; a fault of an operation is kept
\* ------------------------------------------------------------------------

EvaluationResult(res, overflow) ==
    [result |-> res, overflow |-> overflow, panic |-> FALSE]

evaluate_op(kind, a, b, sgn) ==
    CASE kind = "Add" -> add(a, b, sgn)
      [] kind = "Subtract" -> subtract(a, b, sgn)
      [] kind = "Multiply" -> multiply(a, b, sgn)
      [] kind = "Divide" -> divide(a, b, sgn)

RECURSIVE evaluate(_, _)

\* a variant of evaluate that loses the overflow of the left operand
evaluate_left_overflow_lost(node, config) ==
    IF node.kind = "Number" THEN EvaluationResult(node.num, FALSE)
    ELSE TheOne({
        TheOne({
            IF a.panic \/ b.panic
            THEN [result |-> <<>>, overflow |-> FALSE, panic |-> TRUE]
            ELSE TheOne({IF r.panic
                         THEN [result |-> <<>>, overflow |-> FALSE,
                               panic |-> TRUE]
                         ELSE EvaluationResult(r.bits, b.overflow \/ r.over) :
                            r \in {evaluate_op(node.kind, a.result, b.result,
                                               config.signed)}}) :
               b \in {evaluate(node.r, config)}}) :
           a \in {evaluate(node.l, config)}})

evaluate(node, config) ==
    IF node.kind = "Number" THEN EvaluationResult(node.num, FALSE)
    ELSE TheOne({
        TheOne({
            IF a.panic \/ b.panic
            THEN [result |-> <<>>, overflow |-> FALSE, panic |-> TRUE]
            ELSE TheOne({IF r.panic
                         THEN [result |-> <<>>, overflow |-> FALSE,
                               panic |-> TRUE]
                         ELSE EvaluationResult(
                                 r.bits, a.overflow \/ b.overflow \/ r.over) :
                            r \in {evaluate_op(node.kind, a.result, b.result,
                                               config.signed)}}) :
               b \in {evaluate(node.r, config)}}) :
           a \in {evaluate(node.l, config)}})

\* ------------------------------------------------------------------------
\* The glyph sequences, variable stores and configurations parsed
\* ------------------------------------------------------------------------

MaxGlyphs == 3

\* the digit glyphs used: a decimal digit that is zero, one that is not,
\* and a hexadecimal one
DigitValues == {0, 1, 10}

Alphabet ==
    {GlyphDigit(d) : d \in DigitValues}
    \cup {GlyphAdd, GlyphSubtract, GlyphMultiply, GlyphDivide,
          GlyphLeftParen, GlyphRightParen,
          GlyphHexBase, GlyphBinaryBase, GlyphDecimalBase, GlyphVariable}

ShortSequences == UNION {[1..l -> Alphabet] : l \in 0..MaxGlyphs}

\* (2+2)*3, 2+3*4, 8-3-2, -(2+3), -(2), ?0+1, 0-1-1, 1/0+1, --(-1), 1+?1
Examples ==
    {<<GlyphLeftParen, GlyphDigit(2), GlyphAdd, GlyphDigit(2),
       GlyphRightParen, GlyphMultiply, GlyphDigit(3)>>,
     <<GlyphDigit(2), GlyphAdd, GlyphDigit(3), GlyphMultiply, GlyphDigit(4)>>,
     <<GlyphDigit(8), GlyphSubtract, GlyphDigit(3), GlyphSubtract,
       GlyphDigit(2)>>,
     <<GlyphSubtract, GlyphLeftParen, GlyphDigit(2), GlyphAdd, GlyphDigit(3),
       GlyphRightParen>>,
     <<GlyphSubtract, GlyphLeftParen, GlyphDigit(2), GlyphRightParen>>,
     <<GlyphVariable, GlyphDigit(0), GlyphAdd, GlyphDigit(1)>>,
     <<GlyphDigit(0), GlyphSubtract, GlyphDigit(1), GlyphSubtract,
       GlyphDigit(1)>>,
     <<GlyphDigit(1), GlyphDivide, GlyphDigit(0), GlyphAdd, GlyphDigit(1)>>,
     <<GlyphSubtract, GlyphSubtract, GlyphLeftParen, GlyphSubtract,
       GlyphDigit(1), GlyphRightParen>>,
     <<GlyphDigit(1), GlyphAdd, GlyphVariable, GlyphDigit(1)>>}

GlyphSequences == ShortSequences \cup Examples

\* CalculatorApplication::new: every variable holds the glyph 0
DefaultVariables == [i \in 0..15 |-> <<GlyphDigit(0)>>]

\* a store with an empty slot, a slot holding -1, and a slot naming itself
EditedVariables ==
    [i \in 0..15 |->
        CASE i = 0 -> <<>>
          [] i = 1 -> <<GlyphSubtract, GlyphDigit(1)>>
          [] i = 10 -> <<GlyphVariable, GlyphDigit(10)>>
          [] OTHER -> <<GlyphDigit(0)>>]

\* the stores parsed with; a sequence without a Variable glyph reads none
VariableStores == {DefaultVariables, EditedVariables}

parserVars == <<glyphs, variables, eval_config, parsed>>

\* parse has not been called
NotParsed == Fault("None", Parser_new)

\* outside the parser's specification nothing is parsed
ParserIdle ==
    /\ glyphs = <<>>
    /\ variables = DefaultVariables
    /\ eval_config = Configuration(strSize, signed)
    /\ parsed = NotParsed

\* ------------------------------------------------------------------------
\* CalculatorApplication (frontend/mod.rs, frontend/input.rs).  The record
\* app holds the fields of the application; state carries the fields of
\* the ApplicationState variant beside it (bits_digits, bits_cursor_pos,
\* page).  fault names the panic that ended the application, "None" while
\* it runs.  The display is written and never read by a handler, and so
\* are scroll_offset and constant_overflows: they are left out.
\* ------------------------------------------------------------------------

\* the characters 'x' and 'b' of a result string
XChar == 18

BChar == 19

\* Key (keypad.rs)
Key(k, d) == [k |-> k, d |-> d]

\* Glyph::from_char
from_char(c) ==
    CASE c = XChar -> GlyphHexBase
      [] c = BChar -> GlyphBinaryBase
      [] c \in 0..15 -> GlyphDigit(c)
      [] c = PlusChar -> GlyphAdd
      [] c = MinusChar -> GlyphSubtract
      [] OTHER -> NoGlyph

\* Glyph::from_string: None (the empty record set apart by `none`) when a
\* character is no glyph
from_string(s) ==
    [glyphs |-> [i \in 1..Len(s) |-> from_char(s[i])],
     none |-> \E i \in 1..Len(s) : from_char(s[i]) = NoGlyph]

\* Option<Result<EvaluationResult, ParserError>>
NoEvalResult ==
    [tag |-> "None", result |-> <<>>, overflow |-> FALSE, err |-> NoError]

EvalOk(result_, overflow) ==
    [tag |-> "Ok", result |-> result_, overflow |-> overflow, err |-> NoError]

EvalErr(err) ==
    [tag |-> "Err", result |-> <<>>, overflow |-> FALSE, err |-> err]

\* CalculatorApplication::new
CalculatorApplication_new ==
    [state |-> "Normal", bits_digits |-> <<>>, bits_cursor_pos |-> 0,
     page |-> 0, output_format |-> "Decimal", signed_result |-> "None",
     input_shifted |-> FALSE, glyphs |-> <<>>, cursor_pos |-> 0,
     eval_config |-> Configuration(32, FALSE), eval_result |-> NoEvalResult,
     variables |-> DefaultVariables, fault |-> "None"]

Faulted(a, why) == [a EXCEPT !.fault = why]

\* Vec::insert(index, element) and Vec::remove(index), within bounds
vec_insert(v, index, element) ==
    SubSeq(v, 1, index) \o <<element>> \o SubSeq(v, index + 1, Len(v))

vec_remove(v, index) ==
    SubSeq(v, 1, index) \o SubSeq(v, index + 2, Len(v))

clear_evaluation(a) == [a EXCEPT !.eval_result = NoEvalResult]

\* a variant of clear_all that leaves the cursor where it is
clear_all_cursor_kept(a) ==
    [clear_evaluation(a) EXCEPT !.glyphs = <<>>, !.input_shifted = FALSE]

clear_all(a) ==
    [clear_evaluation(a) EXCEPT !.glyphs = <<>>, !.cursor_pos = 0,
                                !.input_shifted = FALSE]

\* a variant of insert_and_redraw that keeps the evaluation result
insert_and_redraw_result_kept(a, glyph) ==
    IF a.cursor_pos > Len(a.glyphs) THEN Faulted(a, "insertion index")
    ELSE [a EXCEPT !.glyphs = vec_insert(@, a.cursor_pos, glyph),
                   !.cursor_pos = @ + 1]

insert_and_redraw(a, glyph) ==
    IF a.cursor_pos > Len(a.glyphs) THEN Faulted(a, "insertion index")
    ELSE clear_evaluation(
            [a EXCEPT !.glyphs = vec_insert(@, a.cursor_pos, glyph),
                      !.cursor_pos = @ + 1])

\* Key::Digit(0) with shift: a pair of parentheses, the cursor between them
insert_parens(a) ==
    IF a.cursor_pos > Len(a.glyphs) THEN Faulted(a, "insertion index")
    ELSE clear_evaluation(
            [a EXCEPT !.input_shifted = FALSE,
                      !.glyphs = vec_insert(
                                    vec_insert(@, a.cursor_pos, GlyphLeftParen),
                                    a.cursor_pos + 1, GlyphRightParen),
                      !.cursor_pos = @ + 1])

set_output_format_and_redraw(a, base) ==
    [a EXCEPT !.output_format = base, !.state = "Normal"]

\* CalculatorApplication::evaluate: parse::<FlexInt>(), then evaluate on
\* the tree.  The fault "end() underflow" stands for a parse in which an
\* end() has underflowed, which panics or not with the build.
app_evaluate(a) ==
    TheOne({
        IF r.res = "Err" THEN [a EXCEPT !.eval_result = EvalErr(r.err)]
        ELSE IF r.res # "Ok" THEN Faulted(a, "panic")
        ELSE TheOne({
               IF e.panic THEN Faulted(a, "panic")
               ELSE [a EXCEPT !.eval_result = EvalOk(e.result, e.overflow),
                              !.fault = IF r.p.wrapped THEN "end() underflow"
                                        ELSE @] :
                  e \in {evaluate(r.node, a.eval_config)}}) :
           r \in {parse(ParserContext(a.glyphs, a.variables, a.eval_config,
                                      {}))}})

\* the prefix of a result in the output base: "x", "b" or nothing
base_prefix(base) ==
    CASE base = "Decimal" -> <<>>
      [] base = "Hexadecimal" -> <<XChar>>
      [] base = "Binary" -> <<BChar>>

\* eval_result_to_string, for an Ok result: the choice of the signedness
\* and of the conversion
eval_result_to_string(a) ==
    LET signed_ == IF a.signed_result = "None" THEN a.eval_config.signed
                   ELSE a.signed_result = "Some(true)"
        x == a.eval_result.result
    IN TheOne({[str |-> base_prefix(a.output_format) \o s.str,
                panic |-> s.panic] :
          s \in {CASE a.output_format = "Decimal" ->
                        IF signed_ THEN to_signed_decimal_string(x)
                        ELSE to_unsigned_decimal_string(x)
                   [] a.output_format = "Hexadecimal" ->
                        IF signed_ THEN to_signed_hex_string(x)
                        ELSE to_unsigned_hex_string(x)
                   [] a.output_format = "Binary" ->
                        IF signed_ THEN to_signed_binary_string(x)
                        ELSE to_unsigned_binary_string(x)}})

\* self.variables[d] = Glyph::from_string(&eval_result_to_string().unwrap())
\*                        .unwrap()
set_variable(a, d) ==
    IF d > 15 THEN Faulted(a, "variable index")
    ELSE IF a.eval_result.tag # "Ok" THEN Faulted(a, "unwrap")
    ELSE TheOne({
           IF s.panic THEN Faulted(a, "panic")
           ELSE IF from_string(s.str).none THEN Faulted(a, "unwrap")
           ELSE [a EXCEPT !.variables =
                             [i \in 0..15 |-> IF i = d
                                              THEN from_string(s.str).glyphs
                                              ELSE a.variables[i]],
                          !.state = "Normal"] :
              s \in {eval_result_to_string(a)}})

\* ApplicationState::Normal with input_shifted
process_normal_shifted(a, key) ==
    CASE key.k = "Shift" -> [a EXCEPT !.input_shifted = FALSE]
      [] key.k = "Delete" -> clear_all(a)
      [] key.k = "Digit" /\ key.d = 0 -> insert_parens(a)
      [] key.k = "Right" ->
            insert_and_redraw([a EXCEPT !.input_shifted = FALSE], GlyphAlign)
      [] key.k = "Variable" ->
            [a EXCEPT !.input_shifted = FALSE,
                      !.state = IF a.eval_result.tag = "Ok" THEN "VariableSet"
                                ELSE @]
      [] key.k = "FormatSelect" ->
            [a EXCEPT !.input_shifted = FALSE, !.state = "OutputSignedMenu"]
      [] key.k = "Menu" ->
            [a EXCEPT !.input_shifted = FALSE, !.state = "MainMenu"]
      [] OTHER -> a

\* ApplicationState::Normal without input_shifted
process_normal(a, key) ==
    CASE key.k = "Digit" -> insert_and_redraw(a, GlyphDigit(key.d))
      [] key.k = "HexBase" -> insert_and_redraw(a, GlyphHexBase)
      [] key.k = "BinaryBase" -> insert_and_redraw(a, GlyphBinaryBase)
      [] key.k = "Add" -> insert_and_redraw(a, GlyphAdd)
      [] key.k = "Subtract" -> insert_and_redraw(a, GlyphSubtract)
      [] key.k = "Multiply" -> insert_and_redraw(a, GlyphMultiply)
      [] key.k = "Divide" -> insert_and_redraw(a, GlyphDivide)
      [] key.k = "Variable" -> insert_and_redraw(a, GlyphVariable)
      [] key.k = "Left" ->
            IF a.cursor_pos > 0
            THEN clear_evaluation([a EXCEPT !.cursor_pos = @ - 1])
            ELSE a
      [] key.k = "Right" ->
            IF a.cursor_pos < Len(a.glyphs)
            THEN clear_evaluation([a EXCEPT !.cursor_pos = @ + 1])
            ELSE a
      [] key.k = "Delete" ->
            IF a.cursor_pos > 0
            THEN IF a.cursor_pos - 1 >= Len(a.glyphs)
                 THEN Faulted(a, "removal index")
                 ELSE clear_evaluation(
                         [a EXCEPT !.cursor_pos = @ - 1,
                                   !.glyphs = vec_remove(@, a.cursor_pos - 1)])
            ELSE a
      [] key.k = "Exe" -> app_evaluate(a)
      [] key.k = "FormatSelect" -> [a EXCEPT !.state = "OutputBaseSelect"]
      [] key.k = "Shift" -> [a EXCEPT !.input_shifted = TRUE]
      [] key.k = "Sleep" -> clear_all(a)
      [] key.k = "Menu" ->
            [a EXCEPT !.state = "FormatMenu",
                      !.bits_digits = DecNumeral(a.eval_config.bits),
                      !.bits_cursor_pos = Len(DecNumeral(a.eval_config.bits))]
      [] OTHER -> a

process_output_base_select(a, key) ==
    CASE key.k = "HexBase" -> set_output_format_and_redraw(a, "Hexadecimal")
      [] key.k = "BinaryBase" -> set_output_format_and_redraw(a, "Binary")
      [] key.k = "FormatSelect" -> set_output_format_and_redraw(a, "Decimal")
      [] OTHER -> a

process_variable_set(a, key) ==
    CASE key.k = "Digit" -> set_variable(a, key.d)
      [] key.k \in {"Exe", "Variable"} -> [a EXCEPT !.state = "Normal"]
      [] OTHER -> a

\* leaving a menu: the variant's fields go with the variant
leave_menu(a) ==
    [a EXCEPT !.state = "Normal", !.bits_digits = <<>>,
              !.bits_cursor_pos = 0, !.page = 0]

\* a variant of apply_bits that takes the number as it is typed
apply_bits_unclamped(a) ==
    IF Len(a.bits_digits) = 0 THEN a
    ELSE [a EXCEPT !.eval_config.bits = DecVal(a.bits_digits)]

\* if let Ok(mut bits) = bits_digits.parse(): the digits parse unless there
\* is none of them; a number below 3 is raised to 3
apply_bits(a) ==
    IF Len(a.bits_digits) = 0 THEN a
    ELSE [a EXCEPT !.eval_config.bits =
                      IF DecVal(a.bits_digits) < 3 THEN 3
                      ELSE DecVal(a.bits_digits)]

process_format_menu(a, key) ==
    CASE key.k = "Digit" ->
            IF from_digit(key.d, 10) = NoDigit THEN Faulted(a, "unwrap")
            ELSE [a EXCEPT !.bits_digits = Append(@, from_digit(key.d, 10)),
                           !.bits_cursor_pos = @ + 1]
      [] key.k = "Delete" ->
            IF a.bits_cursor_pos > 0
            THEN IF a.bits_cursor_pos - 1 >= Len(a.bits_digits)
                 THEN Faulted(a, "removal index")
                 ELSE [a EXCEPT !.bits_digits =
                                   vec_remove(@, a.bits_cursor_pos - 1),
                                !.bits_cursor_pos = @ - 1]
            ELSE a
      [] key.k = "Left" ->
            IF a.bits_cursor_pos > 0
            THEN [a EXCEPT !.bits_cursor_pos = @ - 1] ELSE a
      [] key.k = "Right" ->
            IF a.bits_cursor_pos < Len(a.bits_digits)
            THEN [a EXCEPT !.bits_cursor_pos = @ + 1] ELSE a
      [] key.k = "Add" -> [a EXCEPT !.eval_config.signed = FALSE]
      [] key.k = "Subtract" -> [a EXCEPT !.eval_config.signed = TRUE]
      [] key.k \in {"FormatSelect", "Menu", "Exe"} ->
            clear_evaluation(leave_menu(apply_bits(a)))
      [] OTHER -> a

process_output_signed_menu(a, key) ==
    CASE key.k = "Delete" -> [a EXCEPT !.signed_result = "None"]
      [] key.k = "Add" -> [a EXCEPT !.signed_result = "Some(false)"]
      [] key.k = "Subtract" -> [a EXCEPT !.signed_result = "Some(true)"]
      [] key.k \in {"FormatSelect", "Menu", "Exe"} ->
            clear_evaluation(leave_menu(a))
      [] OTHER -> a

\* Key::Delete enters the bootloader, which is the hal's business
process_main_menu(a, key) ==
    CASE key.k = "Digit" /\ key.d = 1 ->
            [a EXCEPT !.state = "VariableView", !.page = 0]
      [] key.k = "Menu" -> leave_menu(a)
      [] OTHER -> a

process_variable_view(a, key) ==
    CASE key.k = "Left" /\ a.page > 0 -> [a EXCEPT !.page = @ - 1]
      [] key.k = "Right" /\ a.page < 3 -> [a EXCEPT !.page = @ + 1]
      [] key.k \in {"FormatSelect", "Menu", "Exe"} ->
            clear_evaluation(leave_menu(a))
      [] OTHER -> a

process_input_and_redraw(a, key) ==
    IF key.k = "DebugTerminate" THEN Faulted(a, "debug terminate")
    ELSE CASE a.state = "Normal" ->
                 IF a.input_shifted THEN process_normal_shifted(a, key)
                 ELSE process_normal(a, key)
           [] a.state = "OutputBaseSelect" -> process_output_base_select(a, key)
           [] a.state = "VariableSet" -> process_variable_set(a, key)
           [] a.state = "FormatMenu" -> process_format_menu(a, key)
           [] a.state = "OutputSignedMenu" ->
                 process_output_signed_menu(a, key)
           [] a.state = "MainMenu" -> process_main_menu(a, key)
           [] a.state = "VariableView" -> process_variable_view(a, key)

\* nothing recorded: no Exe press stands behind a result, no variable set
NoHistory ==
    [exe |-> [pressed |-> FALSE, glyphs |-> <<>>,
              eval_config |-> Configuration(0, FALSE),
              eval_result |-> NoEvalResult],
     events |-> {},
     menu |-> [left |-> FALSE, bits_digits |-> <<>>, bits |-> 0],
     set |-> [done |-> FALSE, d |-> 0, result |-> <<>>]]

\* Exe pressed where it evaluates the expression
IsEvaluation(a, key) ==
    a.state = "Normal" /\ ~a.input_shifted /\ key.k = "Exe"

\* The history after a key press that took the application from a to r:
\* the Exe press that produced the result on show, what has happened to
\* the glyphs and the format menu since, the digits and the width with
\* which this key press has left the format menu, and the variable set
\* last while width, signedness, override and output base have stayed as
\* they were.
Recorded(h, a, key, r) ==
    LET exe == IsEvaluation(a, key)
        set == a.state = "VariableSet" /\ key.k = "Digit" /\ r.fault = "None"
        same == /\ r.eval_config = a.eval_config
                /\ r.output_format = a.output_format
                /\ r.signed_result = a.signed_result
    IN [exe |-> IF r.eval_result.tag = "None" THEN NoHistory.exe
                ELSE IF exe
                THEN [pressed |-> TRUE, glyphs |-> a.glyphs,
                      eval_config |-> a.eval_config,
                      eval_result |-> r.eval_result]
                ELSE h.exe,
        events |-> IF r.eval_result.tag = "None" \/ exe THEN {}
                   ELSE h.events
                        \cup (IF r.glyphs # a.glyphs THEN {"glyphs"} ELSE {})
                        \cup (IF a.state = "FormatMenu" /\ r.state # a.state
                              THEN {"format menu"} ELSE {}),
        menu |-> IF a.state = "FormatMenu" /\ r.state # a.state
                 THEN [left |-> TRUE, bits_digits |-> a.bits_digits,
                       bits |-> a.eval_config.bits]
                 ELSE NoHistory.menu,
        set |-> IF set THEN [done |-> TRUE, d |-> key.d,
                             result |-> a.eval_result.result]
                ELSE IF same THEN h.set
                ELSE NoHistory.set]

appVars == <<app, hist>>

\* outside the application's specifications no key is pressed
AppIdle ==
    /\ app = CalculatorApplication_new
    /\ hist = NoHistory

\* ------------------------------------------------------------------------
\* The arithmetic operations applied to every pair of operands
\* ------------------------------------------------------------------------

Init ==
    /\ \E w \in MinBits..MaxBits :
          /\ self \in BitVectors(w)
          /\ other \in BitVectors(w)
          /\ strSize = w
    /\ signed \in BOOLEAN
    /\ str = <<>>
    /\ op = "none"
    /\ result = NoResult
    /\ ParserIdle
    /\ AppIdle

Add ==
    /\ op = "none"
    /\ op' = "add"
    /\ result' = add(self, other, signed)
    /\ UNCHANGED <<self, other, signed, str, strSize>>
    /\ UNCHANGED parserVars
    /\ UNCHANGED appVars

Subtract ==
    /\ op = "none"
    /\ op' = "subtract"
    /\ result' = subtract(self, other, signed)
    /\ UNCHANGED <<self, other, signed, str, strSize>>
    /\ UNCHANGED parserVars
    /\ UNCHANGED appVars

Multiply ==
    /\ op = "none"
    /\ op' = "multiply"
    /\ result' = multiply(self, other, signed)
    /\ UNCHANGED <<self, other, signed, str, strSize>>
    /\ UNCHANGED parserVars
    /\ UNCHANGED appVars

Divide ==
    /\ op = "none"
    /\ op' = "divide"
    /\ result' = divide(self, other, signed)
    /\ UNCHANGED <<self, other, signed, str, strSize>>
    /\ UNCHANGED parserVars
    /\ UNCHANGED appVars

Negate ==
    /\ op = "none"
    /\ op' = "negate"
    /\ result' = negate(self)
    /\ UNCHANGED <<self, other, signed, str, strSize>>
    /\ UNCHANGED parserVars
    /\ UNCHANGED appVars

Next == Add \/ Subtract \/ Multiply \/ Divide \/ Negate

Spec == Init /\ [][Next]_vars

\* ------------------------------------------------------------------------
\* The string conversions applied to every digit string
\* ------------------------------------------------------------------------

InitStr ==
    /\ strSize \in MinBits..MaxBits
    /\ str \in SignedStrings
    /\ self = new(strSize)
    /\ other = new(strSize)
    /\ signed = FALSE
    /\ op = "none"
    /\ result = NoResult
    /\ ParserIdle
    /\ AppIdle

FromUnsignedDecimalString ==
    /\ op = "none"
    /\ op' = "from_unsigned_decimal_string"
    /\ result' = from_unsigned_decimal_string(str, strSize)
    /\ UNCHANGED <<self, other, signed, str, strSize>>
    /\ UNCHANGED parserVars
    /\ UNCHANGED appVars

FromSignedDecimalString ==
    /\ op = "none"
    /\ op' = "from_signed_decimal_string"
    /\ result' = from_signed_decimal_string(str, strSize)
    /\ UNCHANGED <<self, other, signed, str, strSize>>
    /\ UNCHANGED parserVars
    /\ UNCHANGED appVars

FromUnsignedHexString ==
    /\ op = "none"
    /\ op' = "from_unsigned_hex_string"
    /\ result' = from_unsigned_hex_string(str, strSize)
    /\ UNCHANGED <<self, other, signed, str, strSize>>
    /\ UNCHANGED parserVars
    /\ UNCHANGED appVars

FromSignedHexString ==
    /\ op = "none"
    /\ op' = "from_signed_hex_string"
    /\ result' = from_signed_hex_string(str, strSize)
    /\ UNCHANGED <<self, other, signed, str, strSize>>
    /\ UNCHANGED parserVars
    /\ UNCHANGED appVars

NextStr ==
    \/ FromUnsignedDecimalString
    \/ FromSignedDecimalString
    \/ FromUnsignedHexString
    \/ FromSignedHexString

SpecStr == InitStr /\ [][NextStr]_vars

\* ------------------------------------------------------------------------
\* The two number strategies (NumberParser) applied to the same arguments
\* ------------------------------------------------------------------------

Bases == {"Decimal", "Hexadecimal", "Binary"}

InitNumberParser ==
    /\ strSize \in MinBits..MaxBits
    /\ str \in SignedStrings
    /\ signed \in BOOLEAN
    /\ self = new(strSize)
    /\ other = new(strSize)
    /\ op = "none"
    /\ result = NoResult
    /\ ParserIdle
    /\ AppIdle

\* <FlexInt as NumberParser>::parse(str, base, signed, strSize)
FlexIntParse ==
    /\ op = "none"
    /\ \E base \in Bases :
          /\ op' = "FlexInt::parse " \o base
          /\ result' = NumberParser_parse(str, base, signed, strSize)
    /\ UNCHANGED <<self, other, signed, str, strSize>>
    /\ UNCHANGED parserVars
    /\ UNCHANGED appVars

\* <ConstantOverflowChecker as NumberParser>::parse(str, base, signed, strSize)
ConstantOverflowCheckerParse ==
    /\ op = "none"
    /\ \E base \in Bases :
          /\ op' = "ConstantOverflowChecker::parse " \o base
          /\ result' = ConstantOverflowChecker_parse(str, base, signed, strSize)
    /\ UNCHANGED <<self, other, signed, str, strSize>>
    /\ UNCHANGED parserVars
    /\ UNCHANGED appVars

NextNumberParser ==
    \/ FlexIntParse
    \/ ConstantOverflowCheckerParse

SpecNumberParser == InitNumberParser /\ [][NextNumberParser]_vars

\* ------------------------------------------------------------------------
\* Every value formatted as a decimal string, and the string parsed back
\* ------------------------------------------------------------------------

InitRoundTrip ==
    /\ \E w \in MinBits..MaxBits :
          /\ self \in BitVectors(w)
          /\ other = new(w)
          /\ strSize = w
    /\ signed = FALSE
    /\ str = <<>>
    /\ op = "none"
    /\ result = NoResult
    /\ ParserIdle
    /\ AppIdle

ToUnsignedDecimalString ==
    /\ op = "none"
    /\ op' = "to_unsigned_decimal_string"
    /\ LET s == to_unsigned_decimal_string(self)
       IN /\ str' = s.str
          /\ result' = IF s.panic THEN Panic ELSE NoResult
    /\ UNCHANGED <<self, other, signed, strSize>>
    /\ UNCHANGED parserVars
    /\ UNCHANGED appVars

ToSignedDecimalString ==
    /\ op = "none"
    /\ op' = "to_signed_decimal_string"
    /\ LET s == to_signed_decimal_string(self)
       IN /\ str' = s.str
          /\ result' = IF s.panic THEN Panic ELSE NoResult
    /\ UNCHANGED <<self, other, signed, strSize>>
    /\ UNCHANGED parserVars
    /\ UNCHANGED appVars

ReparseUnsignedDecimal ==
    /\ op = "to_unsigned_decimal_string"
    /\ ~result.panic
    /\ op' = "unsigned_decimal_round_trip"
    /\ result' = from_unsigned_decimal_string(str, strSize)
    /\ UNCHANGED <<self, other, signed, str, strSize>>
    /\ UNCHANGED parserVars
    /\ UNCHANGED appVars

ReparseSignedDecimal ==
    /\ op = "to_signed_decimal_string"
    /\ ~result.panic
    /\ op' = "signed_decimal_round_trip"
    /\ result' = from_signed_decimal_string(str, strSize)
    /\ UNCHANGED <<self, other, signed, str, strSize>>
    /\ UNCHANGED parserVars
    /\ UNCHANGED appVars

NextRoundTrip ==
    \/ ToUnsignedDecimalString
    \/ ToSignedDecimalString
    \/ ReparseUnsignedDecimal
    \/ ReparseSignedDecimal

SpecRoundTrip == InitRoundTrip /\ [][NextRoundTrip]_vars

\* ------------------------------------------------------------------------
\* Parser::parse on every glyph sequence, then evaluate on the tree
\* ------------------------------------------------------------------------

InitParse ==
    /\ glyphs \in GlyphSequences
    /\ variables \in (IF \E i \in 1..Len(glyphs) : glyphs[i] = GlyphVariable
                      THEN VariableStores ELSE {DefaultVariables})
    /\ \E bits \in MinBits..MaxBits, sgn \in BOOLEAN :
          /\ eval_config = Configuration(bits, sgn)
          /\ self = new(bits)
          /\ other = new(bits)
          /\ strSize = bits
          /\ signed = sgn
    /\ parsed = NotParsed
    /\ AppIdle
    /\ str = <<>>
    /\ op = "none"
    /\ result = NoResult

\* Parser::new(glyphs, variables, eval_config).parse().  Where an end()
\* underflows, a build with overflow checks panics there and a build
\* without them goes on with the wrapped value.
Parse ==
    /\ op = "none"
    /\ op' = "parse"
    /\ \E r \in {parse(ParserContext(glyphs, variables, eval_config, {}))} :
          parsed' \in (IF r.p.wrapped THEN {r, Fault("Panic", r.p)} ELSE {r})
    /\ UNCHANGED <<self, other, signed, str, strSize, result>>
    /\ UNCHANGED <<glyphs, variables, eval_config>>
    /\ UNCHANGED appVars

\* evaluate(&node, &eval_config) on the tree of a successful parse
Evaluate ==
    /\ op = "parse"
    /\ parsed.res = "Ok"
    /\ op' = "evaluate"
    /\ \E e \in {evaluate(parsed.node, eval_config)} :
          result' = IF e.panic THEN Panic ELSE Pair(e.result, e.overflow)
    /\ UNCHANGED <<self, other, signed, str, strSize>>
    /\ UNCHANGED parserVars
    /\ UNCHANGED appVars

NextParse ==
    \/ Parse
    \/ Evaluate

SpecParse == InitParse /\ [][NextParse]_vars

\* ------------------------------------------------------------------------
\* The calculator application under key presses
\* ------------------------------------------------------------------------

\* the longest glyph sequence and bit-width string the keys may build
MaxAppGlyphs == 2

MaxBitsDigits == 2

\* the application's specifications use no other variable
EngineIdle ==
    /\ strSize = MinBits
    /\ signed = FALSE
    /\ self = new(MinBits)
    /\ other = new(MinBits)
    /\ str = <<>>
    /\ op = "none"
    /\ result = NoResult
    /\ ParserIdle

\* process_input_and_redraw(key).  Where an end() has underflowed, a build
\* with overflow checks has panicked there.  Expressions are evaluated at
\* the widths up to MaxBits.
ProcessInput(key) ==
    /\ app.fault = "None"
    /\ IsEvaluation(app, key) => app.eval_config.bits <= MaxBits
    /\ \E r \in {process_input_and_redraw(app, key)} :
          /\ Len(r.glyphs) <= MaxAppGlyphs
          /\ Len(r.bits_digits) <= MaxBitsDigits
          /\ app' \in (IF r.fault = "end() underflow"
                       THEN {[r EXCEPT !.fault = "None"],
                             [r EXCEPT !.fault = "panic"]}
                       ELSE {r})
          /\ hist' = Recorded(hist, app, key, r)
    /\ UNCHANGED <<self, other, signed, str, strSize, op, result>>
    /\ UNCHANGED parserVars

\* the keys pressed: the digit 0 and every other key but Multiply and
\* Divide, which are handled as Add is, and HexBase and BinaryBase, which
\* insert a glyph as Add does and choose the output base; HexBase is
\* pressed where a result is set and read back
Keys ==
    {Key("Digit", 0)}
    \cup {Key(k, 0) : k \in {"Shift", "Menu", "Exe", "Add", "Subtract",
                             "Variable", "Left", "Right", "Delete",
                             "FormatSelect", "DebugTerminate", "Sleep"}}

InitApp ==
    /\ app = CalculatorApplication_new
    /\ hist = NoHistory
    /\ EngineIdle

NextApp == \E key \in Keys : ProcessInput(key)

SpecApp == InitApp /\ [][NextApp]_vars

\* ------------------------------------------------------------------------
\* A result set into a variable and read back: the application with an
\* expression typed and a format chosen, under the keys that evaluate,
\* set a variable, clear and type a reference
\* ------------------------------------------------------------------------

\* 1, -1 and slot 1 itself
RecallExpressions ==
    {<<GlyphDigit(1)>>,
     <<GlyphSubtract, GlyphDigit(1)>>,
     <<GlyphVariable, GlyphDigit(1)>>}

\* with Menu the width is edited and the variables are viewed as well,
\* with FormatSelect and HexBase the output base is chosen
RecallKeys ==
    {Key("Digit", 1), Key("Shift", 0), Key("Exe", 0), Key("Variable", 0),
     Key("Delete", 0), Key("Menu", 0), Key("FormatSelect", 0),
     Key("HexBase", 0)}

InitRecall ==
    /\ \E gs \in RecallExpressions, bits \in MinBits..MaxBits,
          sgn \in BOOLEAN, base \in Bases,
          signed_result \in {"None", "Some(false)", "Some(true)"} :
          app = [CalculatorApplication_new EXCEPT
                    !.glyphs = gs, !.cursor_pos = Len(gs),
                    !.eval_config = Configuration(bits, sgn),
                    !.output_format = base,
                    !.signed_result = signed_result]
    /\ hist = NoHistory
    /\ EngineIdle

NextRecall == \E key \in RecallKeys : ProcessInput(key)

SpecRecall == InitRecall /\ [][NextRecall]_vars

\* ------------------------------------------------------------------------
\* Properties
\* ------------------------------------------------------------------------

\* the width of the operands
W == size(self)

\* C1: unsigned add returns (a + b) mod 2^w, and its overflow flag is the
\* carry out of the most-significant bit, a + b >= 2^w.
C1_AddUnsigned ==
    (op = "add" /\ ~signed) =>
        /\ IsValue(result)
        /\ size(result.bits) = W
        /\ UVal(result.bits) = (UVal(self) + UVal(other)) % Pow2(W)
        /\ result.over = (UVal(self) + UVal(other) >= Pow2(W))

C1_Witness ==
    /\ op = "add" /\ ~signed /\ W = MinBits
    /\ UVal(self) + UVal(other) >= Pow2(W)
    /\ result.over

\* C2: signed add reports overflow exactly when the exact sum is outside
\* [-2^(w-1), 2^(w-1)-1], i.e. when both operands have the same sign and the
\* result has the other one; operands of opposite sign never overflow.
C2_AddSignedOverflow ==
    (op = "add" /\ signed) =>
        /\ IsValue(result)
        /\ result.over = ~InSignedRange(SVal(self) + SVal(other), W)
        /\ result.over =
              (\/ (is_negative(self) /\ is_negative(other)
                   /\ ~is_negative(result.bits))
               \/ (~is_negative(self) /\ ~is_negative(other)
                   /\ is_negative(result.bits)))
        /\ (is_negative(self) # is_negative(other)) => ~result.over

C2_Witness ==
    /\ op = "add" /\ signed
    /\ is_negative(self) /\ is_negative(other)
    /\ ~is_negative(result.bits)
    /\ result.over

\* C3: signed subtract returns a - b wrapped to w bits and reports overflow
\* exactly when the exact difference is outside the signed range, also when
\* b is the minimal negative value, and it never faults.
C3_SubtractSigned ==
    (op = "subtract" /\ signed) =>
        /\ IsValue(result)
        /\ size(result.bits) = W
        /\ UVal(result.bits) = (SVal(self) - SVal(other)) % Pow2(W)
        /\ result.over = ~InSignedRange(SVal(self) - SVal(other), W)

C3_Witness ==
    /\ op = "subtract" /\ signed
    /\ is_largest_possible_negative(other)
    /\ SVal(self) = 0
    /\ result.over
    /\ is_largest_possible_negative(result.bits)

\* C4: unsigned subtract returns (a - b) mod 2^w and its flag is the borrow
\* out of the most-significant bit, a < b.
C4_SubtractUnsigned ==
    (op = "subtract" /\ ~signed) =>
        /\ IsValue(result)
        /\ size(result.bits) = W
        /\ UVal(result.bits) = (UVal(self) - UVal(other)) % Pow2(W)
        /\ result.over = (UVal(self) < UVal(other))

C4_Witness ==
    /\ op = "subtract" /\ ~signed
    /\ UVal(self) < UVal(other)
    /\ result.over
    /\ UVal(result.bits) = Pow2(W) - 1

\* C5: unsigned multiply returns (a * b) mod 2^w and its overflow flag is
\* true exactly when the exact product is greater than 2^w - 1.
C5_MultiplyUnsigned ==
    (op = "multiply" /\ ~signed) =>
        /\ IsValue(result)
        /\ size(result.bits) = W
        /\ UVal(result.bits) = (UVal(self) * UVal(other)) % Pow2(W)
        /\ result.over = (UVal(self) * UVal(other) > Pow2(W) - 1)

C5_Witness ==
    /\ op = "multiply" /\ ~signed
    /\ UVal(self) * UVal(other) > Pow2(W) - 1
    /\ result.over
    /\ is_zero(result.bits)

\* C6: signed multiply returns the low w bits of the exact product and
\* reports overflow exactly when the exact product is outside the signed
\* range: never for a zero operand, always for an out-of-range product,
\* also one whose low w bits are zero.
C6_MultiplySigned ==
    (op = "multiply" /\ signed) =>
        /\ IsValue(result)
        /\ size(result.bits) = W
        /\ UVal(result.bits) = (SVal(self) * SVal(other)) % Pow2(W)
        /\ result.over = ~InSignedRange(SVal(self) * SVal(other), W)
        /\ (is_zero(self) \/ is_zero(other)) => ~result.over

C6_Witness ==
    /\ op = "multiply" /\ signed
    /\ ~InSignedRange(SVal(self) * SVal(other), W)
    /\ is_zero(result.bits)
    /\ result.over

\* C7: dividing by zero returns the all-zero value with overflow = true,
\* signed or not, and never faults, whatever the dividend.
C7_DivideByZero ==
    (op = "divide" /\ is_zero(other)) =>
        /\ IsValue(result)
        /\ result.bits = new(W)
        /\ result.over

C7_Witness ==
    /\ op = "divide" /\ is_zero(other) /\ signed
    /\ is_largest_possible_negative(self)
    /\ result.bits = new(W)
    /\ result.over

\* C8: dividing by a non-zero value never faults and reports overflow
\* exactly when signed, a is the minimal negative value and b is -1; without
\* overflow the result is the quotient truncated toward zero.
C8_DivideNonZero ==
    (op = "divide" /\ ~is_zero(other)) =>
        /\ IsValue(result)
        /\ size(result.bits) = W
        /\ result.over = (/\ signed
                          /\ is_largest_possible_negative(self)
                          /\ SVal(other) = -1)
        /\ ~result.over =>
              IF signed
              THEN SVal(result.bits) = TruncDiv(SVal(self), SVal(other))
              ELSE UVal(result.bits) = UVal(self) \div UVal(other)

C8_Witness ==
    /\ op = "divide" /\ signed
    /\ is_largest_possible_negative(self)
    /\ SVal(other) = -1
    /\ result.over

\* a second case of C8: a negative dividend and a quotient that is rounded
\* toward zero
C8_WitnessTruncated ==
    /\ op = "divide" /\ signed
    /\ SVal(self) = -3 /\ SVal(other) = 2
    /\ SVal(result.bits) = -1
    /\ ~result.over

\* C9: negate of any value but the minimal negative returns y with
\* negate(y) = x and x + y = 0 mod 2^w, without faulting, zero giving zero;
\* negate of the minimal negative value returns no value.
C9_Negate ==
    op = "negate" =>
        IF is_largest_possible_negative(self)
        THEN result.none /\ ~result.panic
        ELSE /\ IsValue(result)
             /\ size(result.bits) = W
             /\ negate(result.bits) = Some(self)
             /\ (UVal(self) + UVal(result.bits)) % Pow2(W) = 0
             /\ is_zero(self) => is_zero(result.bits)

C9_Witness ==
    /\ op = "negate"
    /\ SVal(self) = 3
    /\ IsValue(result)
    /\ SVal(result.bits) = -3

C9_WitnessZero ==
    /\ op = "negate" /\ is_zero(self)
    /\ IsValue(result) /\ is_zero(result.bits)

\* C10: from_unsigned_decimal_string of a non-empty string of decimal digits
\* returns val(s) mod 2^w, with overflow exactly when val(s) >= 2^w, at
\* every width from 3 up.
C10_FromUnsignedDecimal ==
    (op = "from_unsigned_decimal_string" /\ IsDigitString(str, 10)) =>
        /\ IsValue(result)
        /\ UVal(result.bits) = DecVal(str) % Pow2(strSize)
        /\ result.over = (DecVal(str) >= Pow2(strSize))

\* C11: from_signed_decimal_string and from_signed_hex_string, given an
\* optional sign and digits of the base, report overflow exactly when the
\* signed value denoted is outside [-2^(w-1), 2^(w-1)-1]; -2^(w-1) parses to
\* the minimal negative value without overflow.
C11_FromSigned ==
    /\ (op = "from_signed_decimal_string" /\ IsSignedDigitString(str, 10)) =>
          /\ IsValue(result)
          /\ result.over = ~InSignedRange(SignedVal(str, 10), strSize)
          /\ SignedVal(str, 10) = -Pow2(strSize - 1) =>
                is_largest_possible_negative(result.bits)
    /\ (op = "from_signed_hex_string" /\ IsSignedDigitString(str, 16)) =>
          /\ IsValue(result)
          /\ result.over = ~InSignedRange(SignedVal(str, 16), strSize)
          /\ SignedVal(str, 16) = -Pow2(strSize - 1) =>
                is_largest_possible_negative(result.bits)

\* C12: from_unsigned_hex_string of a string of hexadecimal digits returns,
\* without faulting, val(s) mod 2^w with overflow exactly when
\* val(s) >= 2^w, at every width from 3 up.
C12_FromUnsignedHex ==
    (op = "from_unsigned_hex_string" /\ IsDigitString(str, 16)) =>
        /\ IsValue(result)
        /\ size(result.bits) = strSize
        /\ UVal(result.bits) = HexVal(str) % Pow2(strSize)
        /\ result.over = (HexVal(str) >= Pow2(strSize))

\* C13: to_unsigned_decimal_string gives the decimal numeral of the
\* unsigned value, without leading zeros and without an out-of-range index,
\* and from_unsigned_decimal_string of it at the same width gives the value
\* back with overflow = false.
C13_UnsignedDecimalRoundTrip ==
    /\ op = "to_unsigned_decimal_string" =>
          ~result.panic /\ str = DecNumeral(UVal(self))
    /\ op = "unsigned_decimal_round_trip" => result = Pair(self, FALSE)

C13_Witness ==
    /\ op = "unsigned_decimal_round_trip"
    /\ UVal(self) = Pow2(strSize) - 1
    /\ str = DecNumeral(Pow2(strSize) - 1)
    /\ result = Pair(self, FALSE)

\* C14: to_signed_decimal_string never faults, the minimal negative value
\* included, and from_signed_decimal_string of its output at the same width
\* gives the value back with overflow = false.
C14_SignedDecimalRoundTrip ==
    /\ op = "to_signed_decimal_string" => ~result.panic
    /\ op = "signed_decimal_round_trip" => result = Pair(self, FALSE)

C14_Witness ==
    /\ op = "signed_decimal_round_trip"
    /\ is_largest_possible_negative(self)
    /\ str = <<MinusChar>> \o DecNumeral(Pow2(strSize - 1))
    /\ result = Pair(self, FALSE)

\* ------------------------------------------------------------------------
\* Properties of the parser and the evaluator
\* ------------------------------------------------------------------------

Range(s) == {s[i] : i \in 1..Len(s)}

Max(S) == CHOOSE x \in S : \A y \in S : y <= x

\* the glyphs an operand can end with
IsOperandEnd(glyph) ==
    glyph.g \in {"Digit", "HexBase", "BinaryBase", "DecimalBase", "RightParen"}

IsBaseGlyph(glyph) == glyph.g \in {"HexBase", "BinaryBase", "DecimalBase"}

\* the number of '(' still open before the glyph at i (counted from 1)
Depth(gs, i) ==
    Cardinality({k \in 1..(i - 1) : gs[k].g = "LeftParen"})
    - Cardinality({k \in 1..(i - 1) : gs[k].g = "RightParen"})

\* the places in gs[lo..hi], outside any parentheses opened there, of the
\* binary operators of the given kinds
BinaryOps(gs, lo, hi, kinds) ==
    {i \in (lo + 1)..hi : /\ gs[i].g \in kinds
                          /\ Depth(gs, i) = Depth(gs, lo)
                          /\ IsOperandEnd(gs[i - 1])}

\* the value of a variable's contents, parsed and evaluated as a unit
VariableValue(vs, cfg, d) ==
    evaluate(parse(ParserContext(vs[d], vs, cfg, {})).node, cfg).result

\* the value of the literal gs[lo..hi]: digits with a base marker at one end
LiteralValue(gs, cfg, lo, hi) ==
    LET before == IsBaseGlyph(gs[lo])
        after == ~before /\ IsBaseGlyph(gs[hi])
        first == IF before THEN lo + 1 ELSE lo
        last == IF after THEN hi - 1 ELSE hi
        base == IF before THEN from_glyph(gs[lo])
                ELSE IF after THEN from_glyph(gs[hi]) ELSE "Decimal"
    IN NumberParser_parse([i \in 1..(last - first + 1) |-> gs[first + i - 1].d],
                          base, cfg.signed, cfg.bits).bits

\* minus a value, in w bits
RefNegate(x) == IF negate(x).none THEN x ELSE negate(x).bits

\* The value of gs[lo..hi] by the rules of arithmetic notation: split at the
\* last '+' or '-' outside parentheses, else at the last '*' or '/', else
\* take the operand: minus an operand, a parenthesised expression, a
\* variable or a literal.
RECURSIVE RefValue(_, _, _, _, _)
RefValue(gs, vs, cfg, lo, hi) ==
    LET add_sub == BinaryOps(gs, lo, hi, {"Add", "Subtract"})
        mul_div == BinaryOps(gs, lo, hi, {"Multiply", "Divide"})
        split == IF add_sub # {} THEN Max(add_sub) ELSE Max(mul_div)
    IN IF lo > hi THEN new(cfg.bits)
       ELSE IF add_sub # {} \/ mul_div # {}
       THEN evaluate_op(gs[split].g,
                        RefValue(gs, vs, cfg, lo, split - 1),
                        RefValue(gs, vs, cfg, split + 1, hi),
                        cfg.signed).bits
       ELSE IF gs[lo].g = "Subtract"
       THEN RefNegate(RefValue(gs, vs, cfg, lo + 1, hi))
       ELSE IF gs[lo].g = "LeftParen"
       THEN RefValue(gs, vs, cfg, lo + 1, hi - 1)
       ELSE IF gs[lo].g = "Variable"
       THEN VariableValue(vs, cfg, gs[lo + 1].d)
       ELSE LiteralValue(gs, cfg, lo, hi)

\* the length of the run of '-' glyphs that ends at place k (counted from 1)
RECURSIVE SubtractRun(_, _)
SubtractRun(gs, k) ==
    IF k >= 1 /\ gs[k].g = "Subtract" THEN 1 + SubtractRun(gs, k - 1) ELSE 0

\* the length of the run of unary '-' glyphs immediately before the literal
\* whose first glyph has index `first` (counted from 0): the '-' that
\* follows an operand is the binary one
UnaryRun(gs, first) ==
    LET run == SubtractRun(gs, first)
    IN IF run > 0 /\ first - run >= 1 /\ IsOperandEnd(gs[first - run])
       THEN run - 1 ELSE run

TheContext == ParserContext(glyphs, variables, eval_config, {})

\* C15: Parser::parse with the full-precision number strategy returns
\* Ok(node) or Err(ParserError) for every glyph sequence, configuration
\* and variable store: no panic, no recursion without end, no underflow
\* in a span computation.
C15_ParseNeverFaults ==
    op = "parse" => parsed.res \in {"Ok", "Err"} /\ ~parsed.p.wrapped

\* C16: for every glyph sequence that parses, evaluating the tree gives
\* the value the expression has with '*' and '/' binding tighter than '+'
\* and '-', equal precedence associating to the left, and a parenthesised
\* sub-expression taken as a unit.
C16_Precedence ==
    op = "evaluate" =>
        /\ ~result.panic
        /\ result.bits = RefValue(glyphs, variables, eval_config,
                                  1, Len(glyphs))

\* C17: a numeric literal is parsed as negated exactly when the run of
\* unary '-' glyphs immediately before it has odd length, whatever unary
\* '-' glyphs came earlier, before a '(' or a variable reference.
C17_NegationByImmediateRun ==
    (op = "parse" /\ parsed.res = "Ok") =>
        \A l \in Range(parsed.p.literals) :
            l.negated = (UnaryRun(glyphs, l.first) % 2 = 1)

Outcome(r) ==
    [res |-> r.res, err |-> r.err.kind,
     num |-> IF r.res = "Ok" THEN r.node.num ELSE <<>>,
     flagged |-> r.p.constant_overflow_spans # <<>>]

AllDigits(gs) == \A i \in 1..Len(gs) : gs[i].g = "Digit"

C19_WitnessDuplicate ==
    /\ op = "parse"
    /\ glyphs = <<GlyphHexBase, GlyphDigit(1), GlyphBinaryBase>>
    /\ parsed.res = "Err"
    /\ parsed.err.kind = "DuplicateBase"

\* C20: when the top-level expression has been parsed and glyphs are left
\* over, parse returns UnexpectedGlyph with the first glyph left over, at
\* that glyph's index, and no tree.
C20_LeftoverGlyph ==
    op = "parse" =>
        \A top \in {parse_top_level(TheContext, Parser_new)} :
            (/\ Len(glyphs) > 0
             /\ top.res = "Ok"
             /\ ~top.p.wrapped
             /\ top.p.ptr < Len(glyphs))
               => /\ parsed.res = "Err"
                  /\ parsed.node = NoNode
                  /\ parsed.err.kind = "UnexpectedGlyph"
                  /\ parsed.err.glyph = glyphs[top.p.ptr + 1]
                  /\ parsed.err.ptr = top.p.ptr

C20_Witness ==
    /\ op = "parse"
    /\ glyphs = <<GlyphDigit(1), GlyphRightParen, GlyphDigit(0)>>
    /\ parsed.res = "Err"
    /\ parsed.err = [ptr |-> 1, kind |-> "UnexpectedGlyph",
                     glyph |-> GlyphRightParen]

\* the last glyph leaves the parser in need of an operand
NeedsOperand(glyph) ==
    glyph.g \in {"Add", "Subtract", "Multiply", "Divide", "LeftParen"}

\* C21: a glyph sequence that ends in a binary operator, a unary minus or
\* '(' never parses; unless the parse fails before its end, it fails with
\* UnexpectedEnd at the position that is the number of glyphs.  Nowhere
\* else is UnexpectedEnd reported.
C21_UnexpectedEnd ==
    (op = "parse" /\ Len(glyphs) > 0) =>
        /\ NeedsOperand(glyphs[Len(glyphs)]) =>
              /\ parsed.res # "Ok"
              /\ parsed.res = "Err" =>
                    \/ parsed.err.ptr < Len(glyphs)
                    \/ parsed.err = [ptr |-> Len(glyphs),
                                     kind |-> "UnexpectedEnd",
                                     glyph |-> NoGlyph]
        /\ (parsed.res = "Err" /\ parsed.err.kind = "UnexpectedEnd") =>
              /\ parsed.err.ptr = Len(glyphs)
              /\ NeedsOperand(glyphs[Len(glyphs)])

C21_Witness ==
    /\ op = "parse"
    /\ glyphs = <<GlyphDigit(1), GlyphAdd>>
    /\ parsed.res = "Err"
    /\ parsed.err = [ptr |-> 2, kind |-> "UnexpectedEnd", glyph |-> NoGlyph]

C21_WitnessParen ==
    /\ op = "parse"
    /\ glyphs = <<GlyphSubtract, GlyphLeftParen>>
    /\ parsed.res = "Err"
    /\ parsed.err = [ptr |-> 2, kind |-> "UnexpectedEnd", glyph |-> NoGlyph]

\* some operation performed at a node of the tree reports overflow
RECURSIVE AnyOverflow(_, _)
AnyOverflow(node, config) ==
    /\ node.kind # "Number"
    /\ \/ AnyOverflow(node.l, config)
       \/ AnyOverflow(node.r, config)
       \/ evaluate_op(node.kind, evaluate(node.l, config).result,
                      evaluate(node.r, config).result, config.signed).over

\* some division in the tree has a divisor that is zero
RECURSIVE AnyDivisionByZero(_, _)
AnyDivisionByZero(node, config) ==
    /\ node.kind # "Number"
    /\ \/ AnyDivisionByZero(node.l, config)
       \/ AnyDivisionByZero(node.r, config)
       \/ node.kind = "Divide" /\ is_zero(evaluate(node.r, config).result)

\* C22: evaluate returns overflow = TRUE exactly when some operation of
\* the tree reported overflow; a leaf gives FALSE; a division by zero in
\* the tree gives a result with overflow = TRUE and no fault.
C22_OverflowAccumulates ==
    op = "evaluate" =>
        /\ ~result.panic
        /\ result.over = AnyOverflow(parsed.node, eval_config)
        /\ parsed.node.kind = "Number" => ~result.over
        /\ AnyDivisionByZero(parsed.node, eval_config) => result.over

\* 0-1-1 unsigned: the overflow of 0-1 is kept although 15-1 has none
C22_Witness ==
    /\ op = "evaluate"
    /\ glyphs = <<GlyphDigit(0), GlyphSubtract, GlyphDigit(1), GlyphSubtract,
                  GlyphDigit(1)>>
    /\ ~eval_config.signed
    /\ ~evaluate_op("Subtract", evaluate(parsed.node.l, eval_config).result,
                    parsed.node.r.num, FALSE).over
    /\ result.over

\* 1/0+1: the division by zero below the sum is reported as overflow
C22_WitnessDivisionByZero ==
    /\ op = "evaluate"
    /\ glyphs = <<GlyphDigit(1), GlyphDivide, GlyphDigit(0), GlyphAdd,
                  GlyphDigit(1)>>
    /\ AnyDivisionByZero(parsed.node, eval_config)
    /\ result.over

\* the places (counted from 0) of the variable references in gs
References(gs) ==
    {i \in 0..(Len(gs) - 2) : gs[i + 1].g = "Variable" /\ gs[i + 2].g = "Digit"}

\* how many times a span is recorded
Count(spans, span) == Cardinality({k \in 1..Len(spans) : spans[k] = span})

\* the nested parse of a slot's contents records a constant-overflow span
NestedOverflows(vs, cfg, d) ==
    parse(ParserContext(vs[d], vs, cfg, {d})).p.constant_overflow_spans # <<>>

\* C25: after a successful parse, every variable reference whose slot
\* parses with a constant-overflow span is recorded once, as the span of
\* the two glyphs of the reference; a reference whose slot parses with
\* none is not recorded; no other span of the outer parser starts at a
\* reference.
C25_ReferenceOverflowSpan ==
    (op = "parse" /\ parsed.res = "Ok") =>
        \A i \in References(glyphs) :
            /\ Count(parsed.p.constant_overflow_spans, GlyphSpan(i, 2))
                  = IF NestedOverflows(variables, eval_config, glyphs[i + 2].d)
                    THEN 1 ELSE 0
            /\ \A s \in Range(parsed.p.constant_overflow_spans) :
                  s.start = i => s.length = 2

\* ?1 with slot 1 holding -1, unsigned: the reference is recorded
C25_Witness ==
    /\ op = "parse"
    /\ parsed.res = "Ok"
    /\ glyphs = <<GlyphDigit(1), GlyphAdd, GlyphVariable, GlyphDigit(1)>>
    /\ variables = EditedVariables
    /\ ~eval_config.signed
    /\ parsed.p.constant_overflow_spans = <<GlyphSpan(2, 2)>>

\* C26: a negated literal recorded in constant_overflow_spans has the span
\* from the first glyph of the unary '-' run immediately before it to its
\* last glyph.
C26_NegatedLiteralSpan ==
    (op = "parse" /\ parsed.res = "Ok") =>
        \A l \in Range(parsed.p.literals) :
            (l.negated /\ l.overflow) =>
                LET marker == IF l.base = NoBase THEN 0 ELSE 1
                    last == l.first + Len(l.digits) + marker - 1
                IN /\ l.span \in Range(parsed.p.constant_overflow_spans)
                   /\ l.span.start = l.first - UnaryRun(glyphs, l.first)
                   /\ end(l.span) = last

\* C28: Parser::parse returns, Ok or Err, for every glyph sequence and
\* every variable store, a store with a slot that refers to itself
\* included.
C28_ParseTerminates ==
    op = "parse" => parsed.res # "Recursion"

\* C24: for a string of digits of the base, with or without '-' in front,
\* ConstantOverflowChecker::parse reports the overflow flag that the
\* FlexInt strategy reports for the same arguments.
C24_CheckerAgreesWithFlexInt ==
    \A base \in Bases :
        (/\ op = "ConstantOverflowChecker::parse " \o base
         /\ IsDigitString(Unsigned(str), radix(base))
         /\ (HasSign(str) => str[1] = MinusChar))
           => \A fx \in {NumberParser_parse(str, base, signed, strSize)} :
                 /\ IsValue(fx)
                 /\ IsValue(result)
                 /\ result.over = fx.over

\* C27: once a result is set into slot d, evaluating the expression "?d"
\* under the same width, signedness and output format ends without a
\* panic and gives the value that was set, negative values included.
C27_VariableRecall ==
    (/\ hist.set.done
     /\ app.state = "Normal"
     /\ app.glyphs = <<GlyphVariable, GlyphDigit(hist.set.d)>>)
    => /\ app.fault # "panic"
       /\ app.eval_result.tag # "None"
          => /\ app.eval_result.tag = "Ok"
             /\ app.eval_result.result = hist.set.result

\* a negative result has been set into a slot and read back from it
C27_Witness ==
    /\ hist.set.done
    /\ is_negative(hist.set.result)
    /\ app.eval_config.signed
    /\ app.state = "Normal"
    /\ app.glyphs = <<GlyphVariable, GlyphDigit(hist.set.d)>>
    /\ app.eval_result.tag = "Ok"
    /\ app.eval_result.result = hist.set.result

\* C23: the width is at least 3 after any sequence of key presses; a key
\* press that leaves the format menu with digits denoting a number below
\* 3 leaves the width 3, and one that leaves it with digits that do not
\* parse (there are none) leaves the width as it was.
C23_BitsAtLeastThree ==
    /\ app.eval_config.bits >= 3
    /\ hist.menu.left
       => IF Len(hist.menu.bits_digits) = 0
          THEN app.eval_config.bits = hist.menu.bits
          ELSE DigitsVal(hist.menu.bits_digits, 10) < 3
               => app.eval_config.bits = 3

\* the format menu has been left with a number below 3 typed
C23_Witness ==
    /\ hist.menu.left
    /\ Len(hist.menu.bits_digits) > 0
    /\ DigitsVal(hist.menu.bits_digits, 10) < 3
    /\ hist.menu.bits > 3
    /\ app.state = "Normal"
    /\ app.eval_config.bits = 3

\* the format menu has been left with every digit deleted
C23_WitnessUnparsed ==
    /\ hist.menu.left
    /\ hist.menu.bits_digits = <<>>
    /\ app.state = "Normal"
    /\ app.eval_config.bits = hist.menu.bits

\* C29: whenever the state is Normal and eval_result is present, an Exe
\* press on the current glyphs under the current width and signedness has
\* produced it, and no key press since has changed the glyphs or left the
\* format menu (each of those clears the result).
C29_ResultIsCurrent ==
    (app.state = "Normal" /\ app.eval_result.tag # "None")
    => /\ hist.exe.pressed
       /\ hist.exe.glyphs = app.glyphs
       /\ hist.exe.eval_config = app.eval_config
       /\ hist.exe.eval_result = app.eval_result
       /\ hist.events = {}

\* a result on show for an expression typed at a width set in the format
\* menu
C29_Witness ==
    /\ app.state = "Normal"
    /\ app.eval_result.tag = "Ok"
    /\ Len(app.glyphs) = MaxAppGlyphs
    /\ app.eval_config.bits = MinBits
    /\ hist.exe.pressed

\* C30: the cursor stays within 0..glyphs.len(), and no insertion or
\* removal of a glyph indexes the glyphs out of bounds.
C30_CursorInBounds ==
    /\ 0 <= app.cursor_pos
    /\ app.cursor_pos <= Len(app.glyphs)
    /\ app.fault \notin {"insertion index", "removal index"}

\* the cursor between a pair of parentheses just inserted
C30_Witness ==
    /\ app.glyphs = <<GlyphLeftParen, GlyphRightParen>>
    /\ app.cursor_pos = 1
    /\ app.fault = "None"

\* the cursor at the start after a removal in the middle of the glyphs
C30_WitnessDelete ==
    /\ Len(app.glyphs) = 1
    /\ app.cursor_pos = 0
    /\ app.fault = "None"

====
